---- MODULE Spec2Model ----
(***************************************************************************)
(* Universal AI API connector: ConnectorConfig (src/src/config_schema.py)  *)
(* and ConnectorRuntime (src/src/runtime.py).                              *)
(*                                                                         *)
(* Representation.                                                         *)
(*  - A Python str is the sequence of its lexical tokens.  The separators  *)
(*    ".", "/", every decimal digit and every brace field ("{prompt}",    *)
(*    "{credential}", "{other}") are tokens of their own, so that split,   *)
(*    rstrip, isdigit, int, replace and format are computed token by token *)
(*    as the code computes them character by character.                    *)
(*  - A decoded JSON value is a pair <<tag, payload>>: "str", "num", "bool",*)
(*    "null", "obj" (a function from key strings to values), "arr" (a      *)
(*    sequence).  Python None and JSON null are the same value, JNull.     *)
(*  - latency_ms is wall-clock time and is not modelled.                   *)
(***************************************************************************)
EXTENDS Integers, Sequences, FiniteSets, TLC

(***************************************************************************)
(* Bounds                                                                  *)
(***************************************************************************)
\* Largest RetryConfig.max_retries drawn in Init.
MaxRetries == 3

\* Cap of the send counter; above every count the code can reach.
MaxSends == MaxRetries + 2

(***************************************************************************)
(* Python values                                                           *)
(***************************************************************************)
\* A value is the pair of its tag and its payload: two values of different
\* kinds differ in the tag, and their payloads are never compared.
Tag(x) == x[1]
Val(x) == x[2]

JStr(s) == <<"str", s>>
JNum(n) == <<"num", n>>
JNull == <<"null", 0>>
JBool(b) == <<"bool", b>>
JObj(f) == <<"obj", f>>
JArr(s) == <<"arr", s>>

\* Optional[...] holding a dataclass instance.
None == <<"none", 0>>
Some(x) == <<"some", x>>
IsSome(x) == Tag(x) = "some"

EmptyDict == <<>>

\* A one-token string.
S(tok) == <<tok>>

\* d[k] = x on a dict.
DictSet(d, k, x) == [y \in (DOMAIN d) \cup {k} |-> IF y = k THEN x ELSE d[y]]

\* d.update(e)
DictUpdate(d, e) == [y \in (DOMAIN d) \cup (DOMAIN e) |-> IF y \in DOMAIN e THEN e[y] ELSE d[y]]

\* d.get(k, default) on a decoded JSON object.
DictGet(d, k, default) == IF k \in DOMAIN d THEN d[k] ELSE default

Min(a, b) == IF a <= b THEN a ELSE b

Digits == {"0", "1", "2", "3", "4", "5", "6", "7", "8", "9"}

DigitValue(tok) == CHOOSE n \in 0..9 : ToString(n) = tok

\* Characters that str.isdigit() accepts and int() rejects with ValueError:
\* U+00B2 SUPERSCRIPT TWO stands for them.
NonDecimalDigits == {"<U+00B2>"}

\* str.isdigit(): non-empty and every character a digit.
IsDigit(s) == Len(s) > 0 /\ \A i \in 1..Len(s) : s[i] \in Digits \cup NonDecimalDigits

\* int(s) returns: every character is a decimal digit.
IsDecimal(s) == Len(s) > 0 /\ \A i \in 1..Len(s) : s[i] \in Digits

\* int(s) for a string of digits.
RECURSIVE ToInt(_)
ToInt(s) == IF Len(s) = 0 THEN 0
            ELSE 10 * ToInt(SubSeq(s, 1, Len(s) - 1)) + DigitValue(s[Len(s)])

\* str.split(sep): always at least one segment, empty segments kept.
RECURSIVE SplitFrom(_, _, _)
SplitFrom(s, sep, cur) ==
    IF Len(s) = 0 THEN <<cur>>
    ELSE IF Head(s) = sep THEN <<cur>> \o SplitFrom(Tail(s), sep, <<>>)
    ELSE SplitFrom(Tail(s), sep, Append(cur, Head(s)))

Split(s, sep) == SplitFrom(s, sep, <<>>)

\* str.rstrip(ch)
RECURSIVE RStrip(_, _)
RStrip(s, ch) == IF Len(s) > 0 /\ s[Len(s)] = ch THEN RStrip(SubSeq(s, 1, Len(s) - 1), ch) ELSE s

\* str.replace(old, new) for a one-token old.
RECURSIVE Replace(_, _, _)
Replace(s, old, new) ==
    IF Len(s) = 0 THEN <<>>
    ELSE (IF Head(s) = old THEN new ELSE <<Head(s)>>) \o Replace(Tail(s), old, new)

Contains(s, tok) == \E i \in 1..Len(s) : s[i] = tok

BraceFields == {"{credential}", "{prompt}", "{other}"}

\* value_template.format(credential=c): a replacement field other than
\* {credential} raises KeyError.
Format(template, c) ==
    IF \E i \in 1..Len(template) : template[i] \in BraceFields \ {"{credential}"}
    THEN [ok |-> FALSE, value |-> <<>>]
    ELSE [ok |-> TRUE, value |-> Replace(template, "{credential}", c)]

\* The keys of a dict in one fixed order.
RECURSIVE KeySeq(_)
KeySeq(ks) == IF ks = {} THEN <<>>
              ELSE LET k == CHOOSE x \in ks : TRUE IN <<k>> \o KeySeq(ks \ {k})

\* repr(v) and str(v): a str prints bare under str(), quoted inside a container.
RECURSIVE PyRepr(_)
RECURSIVE ReprItems(_)
RECURSIVE ReprEntries(_, _)
PyRepr(x) ==
    CASE Tag(x) = "str" -> <<"'">> \o Val(x) \o <<"'">>
      [] Tag(x) = "num" -> <<ToString(Val(x))>>
      [] Tag(x) = "bool" -> IF Val(x) THEN <<"True">> ELSE <<"False">>
      [] Tag(x) = "null" -> <<"None">>
      [] Tag(x) = "arr" -> <<"[">> \o ReprItems(Val(x)) \o <<"]">>
      [] Tag(x) = "obj" -> <<"{">> \o ReprEntries(Val(x), KeySeq(DOMAIN Val(x))) \o <<"}">>

ReprItems(xs) ==
    IF Len(xs) = 0 THEN <<>>
    ELSE PyRepr(Head(xs)) \o (IF Len(xs) > 1 THEN <<", ">> ELSE <<>>) \o ReprItems(Tail(xs))

ReprEntries(d, ks) ==
    IF Len(ks) = 0 THEN <<>>
    ELSE <<"'">> \o Head(ks) \o <<"': ">> \o PyRepr(d[Head(ks)])
         \o (IF Len(ks) > 1 THEN <<", ">> ELSE <<>>) \o ReprEntries(d, Tail(ks))

PyStr(x) == IF Tag(x) = "str" THEN Val(x) ELSE PyRepr(x)

\* bool(v)
Truthy(x) ==
    CASE Tag(x) = "str" -> Len(Val(x)) > 0
      [] Tag(x) = "num" -> Val(x) # 0
      [] Tag(x) = "bool" -> Val(x)
      [] Tag(x) = "null" -> FALSE
      [] Tag(x) = "arr" -> Len(Val(x)) > 0
      [] Tag(x) = "obj" -> DOMAIN Val(x) # {}

(***************************************************************************)
(* ConnectorConfig.from_dict  (src/src/config_schema.py)                   *)
(***************************************************************************)
AuthConfig(type, key_name, value_template) ==
    [type |-> type, key_name |-> key_name, value_template |-> value_template]

RequestMapping(endpoint, method, prompt_field, static_fields, content_type, extra_headers) ==
    [endpoint |-> endpoint, method |-> method, prompt_field |-> prompt_field,
     static_fields |-> static_fields, content_type |-> content_type,
     extra_headers |-> extra_headers]

ResponseMapping(response_field, error_field) ==
    [response_field |-> response_field, error_field |-> error_field]

\* data.get(key) of the file's top-level object: None when absent.
SectionOf(data, key) == DictGet(data, S(key), JNull)

from_dict(data) ==
    LET a == SectionOf(data, "auth")
        rq == SectionOf(data, "request")
        rs == SectionOf(data, "response")
    IN [name |-> data[S("name")],
        provider |-> data[S("provider")],
        version |-> DictGet(data, S("version"), JStr(<<"1", ".", "0">>)),
        base_url |-> data[S("base_url")],
        auth |-> IF Truthy(a)
                 THEN Some(AuthConfig(Val(a)[S("type")], Val(a)[S("key_name")], Val(a)[S("value_template")]))
                 ELSE None,
        request |-> IF Truthy(rq)
                    THEN Some(RequestMapping(
                             Val(rq)[S("endpoint")],
                             DictGet(Val(rq), S("method"), JStr(S("POST"))),
                             Val(rq)[S("prompt_field")],
                             DictGet(Val(rq), S("static_fields"), JObj(EmptyDict)),
                             DictGet(Val(rq), S("content_type"), JStr(<<"application", "/", "json">>)),
                             DictGet(Val(rq), S("extra_headers"), JObj(EmptyDict))))
                    ELSE None,
        response |-> IF Truthy(rs)
                     THEN Some(ResponseMapping(Val(rs)[S("response_field")],
                                               DictGet(Val(rs), S("error_field"), JNull)))
                     ELSE None,
        streaming |-> DictGet(data, S("streaming"), JBool(FALSE)),
        timeout_seconds |-> DictGet(data, S("timeout_seconds"), JNum(30))]

(***************************************************************************)
(* Path accessors  (src/src/runtime.py)                                    *)
(***************************************************************************)
\* _set_nested_value(obj, path, value), as the object after the call; ok is
\* FALSE when the call raises (a key step on a value that is no dict).
RECURSIVE SetParts(_, _, _)
SetParts(current, parts, value) ==
    IF Len(parts) = 1
    THEN IF IsDigit(parts[1]) THEN [ok |-> TRUE, value |-> current]
         ELSE IF Tag(current) = "obj"
              THEN [ok |-> TRUE, value |-> JObj(DictSet(Val(current), parts[1], value))]
              ELSE [ok |-> FALSE, value |-> current]
    ELSE IF IsDigit(Head(parts)) THEN SetParts(current, Tail(parts), value)
    ELSE IF Tag(current) # "obj" THEN [ok |-> FALSE, value |-> current]
    ELSE LET part == Head(parts)
             child == IF part \in DOMAIN Val(current) THEN Val(current)[part] ELSE JObj(EmptyDict)
             r == SetParts(child, Tail(parts), value)
         IN [ok |-> r.ok, value |-> JObj(DictSet(Val(current), part, r.value))]

_set_nested_value(obj, path, value) == SetParts(obj, Split(path, "."), value)

\* _get_nested_value(obj, path): JNull is Python's None.
RECURSIVE GetParts(_, _)
GetParts(current, parts) ==
    IF Len(parts) = 0 THEN current
    ELSE IF Tag(current) = "null" THEN JNull
    ELSE LET part == Head(parts) IN
         IF IsDigit(part)
         THEN IF Tag(current) = "arr" /\ Len(Val(current)) > ToInt(part)
              THEN GetParts(Val(current)[ToInt(part) + 1], Tail(parts))
              ELSE JNull
         ELSE IF Tag(current) = "obj"
              THEN GetParts(DictGet(Val(current), part, JNull), Tail(parts))
              ELSE JNull

\* Variant: an index past the end addresses the last element.
RECURSIVE GetPartsClamped(_, _)
GetPartsClamped(current, parts) ==
    IF Len(parts) = 0 THEN current
    ELSE IF Tag(current) = "null" THEN JNull
    ELSE LET part == Head(parts) IN
         IF IsDigit(part)
         THEN IF Tag(current) = "arr" /\ Len(Val(current)) > 0
              THEN GetPartsClamped(Val(current)[Min(ToInt(part) + 1, Len(Val(current)))], Tail(parts))
              ELSE JNull
         ELSE IF Tag(current) = "obj"
              THEN GetPartsClamped(DictGet(Val(current), part, JNull), Tail(parts))
              ELSE JNull

_get_nested_value_clamped(obj, path) == GetPartsClamped(obj, Split(path, "."))

_get_nested_value(obj, path) == GetParts(obj, Split(path, "."))

\* int(part) raises on the way: the walk reaches a segment that isdigit()
\* accepts and int() rejects.
RECURSIVE GetPartsRaises(_, _)
GetPartsRaises(current, parts) ==
    IF Len(parts) = 0 THEN FALSE
    ELSE IF Tag(current) = "null" THEN FALSE
    ELSE LET part == Head(parts) IN
         IF IsDigit(part)
         THEN IF ~IsDecimal(part) THEN TRUE
              ELSE IF Tag(current) = "arr" /\ Len(Val(current)) > ToInt(part)
              THEN GetPartsRaises(Val(current)[ToInt(part) + 1], Tail(parts))
              ELSE FALSE
         ELSE IF Tag(current) = "obj"
              THEN GetPartsRaises(DictGet(Val(current), part, JNull), Tail(parts))
              ELSE FALSE

\* A call of _get_nested_value: what it returns, or that it raises.
_get_nested_value_call(obj, path) ==
    IF GetPartsRaises(obj, Split(path, ".")) THEN [ok |-> FALSE, value |-> JNull]
    ELSE [ok |-> TRUE, value |-> GetParts(obj, Split(path, "."))]

(***************************************************************************)
(* Request building  (src/src/runtime.py)                                  *)
(***************************************************************************)
\* "{prompt}" in str(body): str() of a dict prints its keys and its strings.
RECURSIVE HasPlaceholder(_)
HasPlaceholder(x) ==
    CASE Tag(x) = "str" -> Contains(Val(x), "{prompt}")
      [] Tag(x) = "arr" -> \E i \in 1..Len(Val(x)) : HasPlaceholder(Val(x)[i])
      [] Tag(x) = "obj" -> \E k \in DOMAIN Val(x) : Contains(k, "{prompt}") \/ HasPlaceholder(Val(x)[k])
      [] OTHER -> FALSE

RECURSIVE _replace_prompt_placeholder(_, _)
_replace_prompt_placeholder(obj, prompt) ==
    CASE Tag(obj) = "str" -> JStr(Replace(Val(obj), "{prompt}", prompt))
      [] Tag(obj) = "obj" -> JObj([k \in DOMAIN Val(obj) |-> _replace_prompt_placeholder(Val(obj)[k], prompt)])
      [] Tag(obj) = "arr" -> JArr([i \in 1..Len(Val(obj)) |-> _replace_prompt_placeholder(Val(obj)[i], prompt)])
      [] OTHER -> obj

Raised == [ok |-> FALSE, value |-> JNull]
Returned(x) == [ok |-> TRUE, value |-> x]

IsAuthType(config, type) == IsSome(config.auth) /\ Val(config.auth).type = JStr(S(type))

\* f"{base_url.rstrip('/')}{endpoint}"
BuildUrl(config) ==
    IF ~IsSome(config.request) THEN Raised
    ELSE Returned(JStr(RStrip(Val(config.base_url), "/") \o Val(Val(config.request).endpoint)))

\* Variant: extra_headers are applied after the auth entry.
_build_headers_extra_last(config, credential) ==
    IF ~IsSome(config.request) THEN Raised
    ELSE LET base == (<<"Content-Type">> :> Val(config.request).content_type)
             extra == Val(config.request).extra_headers
             auth_value == Format(Val(Val(config.auth).value_template), credential)
             h1 == IF IsAuthType(config, "header")
                   THEN DictSet(base, Val(Val(config.auth).key_name), JStr(auth_value.value))
                   ELSE base
         IN IF IsAuthType(config, "header") /\ ~auth_value.ok THEN Raised
            ELSE Returned(IF Truthy(extra) THEN DictUpdate(h1, Val(extra)) ELSE h1)

_build_headers(config, credential) ==
    IF ~IsSome(config.request) THEN Raised
    ELSE LET base == (<<"Content-Type">> :> Val(config.request).content_type)
             extra == Val(config.request).extra_headers
             h1 == IF Truthy(extra) THEN DictUpdate(base, Val(extra)) ELSE base
             auth_value == Format(Val(Val(config.auth).value_template), credential)
         IN IF IsAuthType(config, "header")
            THEN IF auth_value.ok
                 THEN Returned(DictSet(h1, Val(Val(config.auth).key_name), JStr(auth_value.value)))
                 ELSE Raised
            ELSE Returned(h1)

_build_body(config, credential, prompt) ==
    IF ~IsSome(config.request) THEN Raised
    ELSE LET body == Val(config.request).static_fields
             prompt_field == Val(Val(config.request).prompt_field)
             injected == IF HasPlaceholder(body)
                         THEN Returned(_replace_prompt_placeholder(body, prompt))
                         ELSE LET r == _set_nested_value(body, prompt_field, JStr(prompt))
                              IN IF r.ok THEN Returned(r.value) ELSE Raised
             auth_value == Format(Val(Val(config.auth).value_template), credential)
         IN IF ~injected.ok THEN Raised
            ELSE IF IsAuthType(config, "body")
            THEN IF ~auth_value.ok THEN Raised
                 ELSE LET r == _set_nested_value(injected.value, Val(Val(config.auth).key_name), JStr(auth_value.value))
                      IN IF r.ok THEN Returned(r.value) ELSE Raised
            ELSE injected

(***************************************************************************)
(* Error classification and retry policy  (src/src/runtime.py)             *)
(***************************************************************************)
ErrorType == {"SUCCESS", "AUTH_ERROR", "RATE_LIMIT", "BAD_REQUEST", "SERVER_ERROR",
              "TIMEOUT", "NETWORK_ERROR", "PARSE_ERROR", "UNKNOWN"}

\* RetryConfig defaults.
DefaultMaxRetries == 3
DefaultBaseDelay == 1
DefaultMaxDelay == 30
DefaultExponentialBase == 2
\* Variant: the default retry_on also lists NETWORK_ERROR.
DefaultRetryOnWithNetwork == {"RATE_LIMIT", "SERVER_ERROR", "TIMEOUT", "NETWORK_ERROR"}

DefaultRetryOn == {"RATE_LIMIT", "SERVER_ERROR", "TIMEOUT"}

RetryConfig(max_retries, base_delay, max_delay, exponential_base, retry_on) ==
    [max_retries |-> max_retries, base_delay |-> base_delay, max_delay |-> max_delay,
     exponential_base |-> exponential_base, retry_on |-> retry_on]

\* Variant: the final "status_code >= 400" branch is missing.
_classify_error_4xx_success(status_code, exception) ==
    IF exception # "none"
    THEN IF exception = "timeout" THEN "TIMEOUT"
         ELSE IF exception = "request_error" THEN "NETWORK_ERROR"
         ELSE "UNKNOWN"
    ELSE IF Tag(status_code) = "null" THEN "UNKNOWN"
    ELSE IF Val(status_code) = 401 \/ Val(status_code) = 403 THEN "AUTH_ERROR"
    ELSE IF Val(status_code) = 429 THEN "RATE_LIMIT"
    ELSE IF Val(status_code) = 400 THEN "BAD_REQUEST"
    ELSE IF Val(status_code) >= 500 THEN "SERVER_ERROR"
    ELSE "SUCCESS"

\* Variant: 403 is not told apart from the other 4xx statuses.
_classify_error_403_unknown(status_code, exception) ==
    IF exception # "none"
    THEN IF exception = "timeout" THEN "TIMEOUT"
         ELSE IF exception = "request_error" THEN "NETWORK_ERROR"
         ELSE "UNKNOWN"
    ELSE IF Tag(status_code) = "null" THEN "UNKNOWN"
    ELSE IF Val(status_code) = 401 THEN "AUTH_ERROR"
    ELSE IF Val(status_code) = 429 THEN "RATE_LIMIT"
    ELSE IF Val(status_code) = 400 THEN "BAD_REQUEST"
    ELSE IF Val(status_code) >= 500 THEN "SERVER_ERROR"
    ELSE IF Val(status_code) >= 400 THEN "UNKNOWN"
    ELSE "SUCCESS"

\* exception is "none", "timeout" (httpx.TimeoutException), "request_error"
\* (any other httpx.RequestError) or "other"; status_code is JNull or JNum.
_classify_error(status_code, exception) ==
    IF exception # "none"
    THEN IF exception = "timeout" THEN "TIMEOUT"
         ELSE IF exception = "request_error" THEN "NETWORK_ERROR"
         ELSE "UNKNOWN"
    ELSE IF Tag(status_code) = "null" THEN "UNKNOWN"
    ELSE IF Val(status_code) = 401 \/ Val(status_code) = 403 THEN "AUTH_ERROR"
    ELSE IF Val(status_code) = 429 THEN "RATE_LIMIT"
    ELSE IF Val(status_code) = 400 THEN "BAD_REQUEST"
    ELSE IF Val(status_code) >= 500 THEN "SERVER_ERROR"
    ELSE IF Val(status_code) >= 400 THEN "UNKNOWN"
    ELSE "SUCCESS"

RECURSIVE Pow(_, _)
Pow(b, n) == IF n = 0 THEN 1 ELSE b * Pow(b, n - 1)

\* Variant: the exponent is the number of the try, not of the retry.
_calculate_delay_next(rc, n) == Min(rc.base_delay * Pow(rc.exponential_base, n + 1), rc.max_delay)

_calculate_delay(rc, n) == Min(rc.base_delay * Pow(rc.exponential_base, n), rc.max_delay)

\* Variant: retry_on is not consulted.
_should_retry_any_kind(rc, kind, n) == n < rc.max_retries

\* Variant: max_retries is not consulted.
_should_retry_unbounded(rc, kind, n) == kind \in rc.retry_on

_should_retry(rc, kind, n) ==
    IF n >= rc.max_retries THEN FALSE ELSE kind \in rc.retry_on

(***************************************************************************)
(* ConnectorResponse                                                       *)
(***************************************************************************)
ConnectorResponse(success, content, raw_response, error, kind, status_code, retries) ==
    [success |-> success, content |-> content, raw_response |-> raw_response,
     error |-> error, error_type |-> kind, status_code |-> status_code,
     retries |-> retries]

\* The dataclass defaults.
NoResponse == ConnectorResponse(FALSE, JNull, JNull, JNull, "SUCCESS", JNull, 0)

(***************************************************************************)
(* Inputs: config files, prompts, retry configurations, transport outcomes *)
(***************************************************************************)
\* A dict literal from <<key, value>> pairs.
Dict(pairs) ==
    [k \in {pairs[i][1] : i \in 1..Len(pairs)} |->
        pairs[CHOOSE i \in 1..Len(pairs) : pairs[i][1] = k][2]]

Path(segments) == JStr(segments)

ChatRequest ==
    JObj(Dict(<<
        <<S("endpoint"), JStr(<<"/", "v", "1", "/", "chat", "/", "completions">>)>>,
        <<S("method"), JStr(S("POST"))>>,
        <<S("prompt_field"), Path(<<"messages">>)>>,
        <<S("static_fields"), JObj(Dict(<<
            <<S("model"), JStr(S("gpt"))>>,
            <<S("messages"), JArr(<<JObj(Dict(<<
                <<S("role"), JStr(S("user"))>>,
                <<S("content"), JStr(S("{prompt}"))>> >>))>>)>> >>))>>,
        <<S("content_type"), JStr(<<"application", "/", "json">>)>>,
        <<S("extra_headers"), JObj(EmptyDict)>> >>))

FlatRequest ==
    JObj(Dict(<<
        <<S("endpoint"), JStr(<<"/", "generate">>)>>,
        <<S("prompt_field"), Path(<<"prompt">>)>>,
        <<S("static_fields"), JObj(Dict(<< <<S("model"), JStr(S("m"))>> >>))>>,
        <<S("extra_headers"), JObj(Dict(<< <<S("x-version"), JStr(S("v"))>> >>))>> >>))

\* prompt_field "input.text" under a template whose "input" is a string.
NestedRequest ==
    JObj(Dict(<<
        <<S("endpoint"), JStr(<<"/", "generate">>)>>,
        <<S("prompt_field"), Path(<<"input", ".", "text">>)>>,
        <<S("static_fields"), JObj(Dict(<< <<S("input"), JStr(S("x"))>> >>))>> >>))

ChoicesResponse ==
    JObj(Dict(<<
        <<S("response_field"), Path(<<"choices", ".", "0", ".", "message", ".", "content">>)>>,
        <<S("error_field"), Path(<<"error", ".", "message">>)>> >>))

\* An index past the end of the one-element choices array; no error_field.
OutOfRangeResponse ==
    JObj(Dict(<<
        <<S("response_field"), Path(<<"choices", ".", "1", ".", "message", ".", "content">>)>> >>))

BearerAuth ==
    JObj(Dict(<<
        <<S("type"), JStr(S("header"))>>,
        <<S("key_name"), JStr(S("Authorization"))>>,
        <<S("value_template"), JStr(<<"Bearer ", "{credential}">>)>> >>))

BodyAuth ==
    JObj(Dict(<<
        <<S("type"), JStr(S("body"))>>,
        <<S("key_name"), JStr(S("api_key"))>>,
        <<S("value_template"), JStr(S("{credential}"))>> >>))

ConfigFile(name, base_url, auth, request, response) ==
    Dict(<<
        <<S("name"), JStr(S(name))>>,
        <<S("provider"), JStr(S(name))>>,
        <<S("base_url"), JStr(base_url)>>,
        <<S("auth"), auth>>,
        <<S("request"), request>>,
        <<S("response"), response>> >>)

BaseUrl == <<"https:", "/", "/", "api", ".", "example", ".", "com">>

\* Files the loader accepts: json.load succeeds and from_dict finds its keys.
ConfigFiles ==
    { ConfigFile("openai", BaseUrl \o <<"/">>, BearerAuth, ChatRequest, ChoicesResponse),
      ConfigFile("flat", BaseUrl, BodyAuth, FlatRequest, OutOfRangeResponse),
      ConfigFile("nested", BaseUrl, BearerAuth, NestedRequest, ChoicesResponse),
      ConfigFile("norequest", BaseUrl, BearerAuth, JNull, ChoicesResponse),
      ConfigFile("noresponse", BaseUrl, BearerAuth, ChatRequest, JNull) }

Prompts == { <<"Hi">> }

Credentials == { <<"sk-test">> }

RetryConfigs ==
    { RetryConfig(m, d[1], d[2], d[3], on) :
        m \in 0..MaxRetries,
        d \in { <<DefaultBaseDelay, DefaultMaxDelay, DefaultExponentialBase>>, <<2, 5, 3>> },
        on \in { DefaultRetryOn,
                 {"AUTH_ERROR", "BAD_REQUEST", "PARSE_ERROR", "NETWORK_ERROR"} } }

Statuses == {200, 400, 401, 403, 404, 429, 500, 503}

\* A response body: what response.json() decodes, or text that is no JSON.
JsonBody(data) == [decodable |-> TRUE, data |-> data, text |-> PyRepr(data)]
TextBody(text) == [decodable |-> FALSE, data |-> JNull, text |-> text]

HelloBody ==
    JsonBody(JObj(Dict(<<
        <<S("choices"), JArr(<<JObj(Dict(<<
            <<S("message"), JObj(Dict(<< <<S("content"), JStr(S("hello"))>> >>))>> >>))>>)>> >>)))

ErrorBody ==
    JsonBody(JObj(Dict(<<
        <<S("error"), JObj(Dict(<< <<S("message"), JStr(S("bad"))>> >>))>> >>)))

HtmlBody == TextBody(<<"<html>">>)

Bodies == {HelloBody, ErrorBody, HtmlBody}

HttpOutcome(status, rbody) == [kind |-> "response", status |-> status, body |-> rbody]
ExceptionOutcome(kind) == [kind |-> kind, status |-> 0, body |-> TextBody(<<>>)]
NoOutcome == ExceptionOutcome("none")

(***************************************************************************)
(* ConnectorRuntime.send_prompt as a state machine                         *)
(***************************************************************************)
VARIABLES
    config,        \* self.config, as from_dict loaded it
    credential,    \* self.credential
    retry_config,  \* self.retry_config
    prompt,        \* the argument of send_prompt
    pc,            \* "build", "send", "wait", "sleep", "done", "raised"
    url,           \* local url
    headers,       \* local headers
    body,          \* local body
    attempt,       \* local attempt
    error_type,    \* local error_type ("unset" before its first assignment)
    delay,         \* local delay
    outcome,       \* what the transport gave for the latest send
    builds,        \* how many times the request has been built
    sent,          \* the requests handed to client.request, in order
    slept,         \* the arguments of time.sleep, in order
    retried,       \* the error kinds of the outcomes that were retried, in order
    result,        \* the ConnectorResponse returned
    args,          \* the arguments of a function called on its own (<<>> under send_prompt)
    rets,          \* what the functions called on args have returned so far, in order
    heap,          \* the dicts and lists that runtimes sharing one config hold, by address
    rt             \* those runtimes: where each is in its call, and its references

vars == <<config, credential, retry_config, prompt, pc, url, headers, body, attempt,
          error_type, delay, outcome, builds, sent, slept, retried, result, args, rets,
          heap, rt>>

\* What no step of send_prompt assigns.
inputs == <<config, credential, retry_config, prompt, args, rets, heap, rt>>
request_locals == <<url, headers, body, builds>>

Init ==
    /\ \E data \in ConfigFiles : config = from_dict(data)
    /\ credential \in Credentials
    /\ retry_config \in RetryConfigs
    /\ prompt \in Prompts
    /\ pc = "build"
    /\ url = JNull
    /\ headers = EmptyDict
    /\ body = JNull
    /\ attempt = 0
    /\ error_type = "unset"
    /\ delay = 0
    /\ outcome = NoOutcome
    /\ builds = 0
    /\ sent = <<>>
    /\ slept = <<>>
    /\ retried = <<>>
    /\ result = NoResponse
    /\ args = <<>>
    /\ rets = <<>>
    /\ heap = <<>>
    /\ rt = <<>>

\* url, headers and body are built before the try: an exception here leaves
\* send_prompt.
Build ==
    /\ pc = "build"
    /\ LET u == BuildUrl(config)
           h == _build_headers(config, credential)
           b == _build_body(config, credential, prompt)
       IN IF u.ok /\ h.ok /\ b.ok
          THEN /\ url' = u.value
               /\ headers' = h.value
               /\ body' = b.value
               /\ builds' = builds + 1
               /\ pc' = "send"
          ELSE /\ pc' = "raised"
               /\ UNCHANGED request_locals
    /\ attempt' = 0
    /\ UNCHANGED <<inputs, error_type, delay, outcome, sent, slept, retried, result>>

\* The arguments of self.client.request.
ClientRequest(method, u, h, b) == [method |-> method, url |-> u, headers |-> h, json |-> b]

Send ==
    /\ pc = "send"
    /\ Len(sent) < MaxSends
    /\ sent' = Append(sent, ClientRequest(Val(config.request).method, url, headers, body))
    /\ pc' = "wait"
    /\ UNCHANGED <<inputs, request_locals, attempt, error_type, delay, outcome, slept, retried, result>>

\* if self._should_retry(...): delay = ...; time.sleep(delay) is about to run.
Retry(kind) ==
    /\ error_type' = kind
    /\ delay' = _calculate_delay(retry_config, attempt)
    /\ pc' = "sleep"
    /\ retried' = Append(retried, kind)
    /\ UNCHANGED result

Return(r) ==
    /\ result' = r
    /\ pc' = "done"
    /\ UNCHANGED <<delay, retried>>

ErrorMessage(status, rbody) ==
    LET error_msg == <<"API returned status ", ToString(status)>>
        error_field == Val(config.response).error_field
        error_detail == _get_nested_value(rbody.data, Val(error_field))
    IN IF rbody.decodable /\ IsSome(config.response)
       THEN IF Truthy(error_field)
            THEN IF Truthy(error_detail)
                 THEN error_msg \o <<": ">> \o PyStr(error_detail)
                 ELSE error_msg
            ELSE error_msg \o <<": ">> \o PyStr(rbody.data)
       ELSE error_msg \o <<": ">> \o rbody.text

\* except Exception as e
UnexpectedError(text) ==
    ConnectorResponse(FALSE, JNull, JNull, JStr(<<"Unexpected error: ", text>>),
                      "UNKNOWN", JNull, attempt)

HandleResponse ==
    /\ pc = "wait"
    /\ \E status \in Statuses, rbody \in Bodies :
        /\ outcome' = HttpOutcome(status, rbody)
        /\ IF status >= 400
           THEN LET kind == _classify_error(JNum(status), "none") IN
                IF _should_retry(retry_config, kind, attempt)
                THEN Retry(kind)
                ELSE /\ error_type' = kind
                     /\ Return(ConnectorResponse(FALSE, JNull,
                            IF rbody.decodable THEN rbody.data ELSE JNull,
                            JStr(ErrorMessage(status, rbody)), kind, JNum(status), attempt))
           ELSE /\ UNCHANGED error_type
                /\ IF ~rbody.decodable THEN Return(UnexpectedError("JSONDecodeError"))
                   ELSE IF ~IsSome(config.response) THEN Return(UnexpectedError("AttributeError"))
                   ELSE LET content == _get_nested_value(rbody.data, Val(Val(config.response).response_field)) IN
                        IF Tag(content) = "null"
                        THEN Return(ConnectorResponse(FALSE, JNull, rbody.data,
                                 JStr(<<"Could not extract response from path '">>
                                      \o Val(Val(config.response).response_field) \o <<"'">>),
                                 "PARSE_ERROR", JNum(status), attempt))
                        ELSE Return(ConnectorResponse(TRUE, JStr(PyStr(content)), rbody.data,
                                 JNull, "SUCCESS", JNum(status), attempt))
    /\ UNCHANGED <<inputs, request_locals, attempt, sent, slept>>

HandleTimeout ==
    /\ pc = "wait"
    /\ outcome' = ExceptionOutcome("timeout")
    /\ IF _should_retry(retry_config, "TIMEOUT", attempt)
       THEN Retry("TIMEOUT")
       ELSE /\ error_type' = "TIMEOUT"
            /\ Return(ConnectorResponse(FALSE, JNull, JNull,
                   JStr(<<"Request timed out after ">> \o PyStr(config.timeout_seconds) \o <<"s">>),
                   "TIMEOUT", JNull, attempt))
    /\ UNCHANGED <<inputs, request_locals, attempt, sent, slept>>

HandleRequestError ==
    /\ pc = "wait"
    /\ outcome' = ExceptionOutcome("request_error")
    /\ IF _should_retry(retry_config, "NETWORK_ERROR", attempt)
       THEN Retry("NETWORK_ERROR")
       ELSE /\ error_type' = "NETWORK_ERROR"
            /\ Return(ConnectorResponse(FALSE, JNull, JNull,
                   JStr(<<"Request failed: ", "ConnectError">>), "NETWORK_ERROR", JNull, attempt))
    /\ UNCHANGED <<inputs, request_locals, attempt, sent, slept>>

\* client.request raises something that is no httpx.RequestError.
HandleOtherFault ==
    /\ pc = "wait"
    /\ outcome' = ExceptionOutcome("other")
    /\ Return(UnexpectedError("RuntimeError"))
    /\ UNCHANGED <<inputs, request_locals, attempt, error_type, sent, slept>>

\* Variant: the resend does not count as an attempt.
SleepWithoutCount ==
    /\ pc = "sleep"
    /\ slept' = Append(slept, delay)
    /\ pc' = "send"
    /\ UNCHANGED <<inputs, request_locals, attempt, error_type, delay, outcome, sent, retried, result>>

\* Variant: the body is touched again before the resend.
SleepRebuild ==
    /\ pc = "sleep"
    /\ slept' = Append(slept, delay)
    /\ attempt' = attempt + 1
    /\ body' = JObj(DictSet(Val(body), S("retry"), JNum(attempt + 1)))
    /\ pc' = "send"
    /\ UNCHANGED <<inputs, url, headers, builds, error_type, delay, outcome, sent, retried, result>>

\* time.sleep(delay); attempt += 1; continue
Sleep ==
    /\ pc = "sleep"
    /\ slept' = Append(slept, delay)
    /\ attempt' = attempt + 1
    /\ pc' = "send"
    /\ UNCHANGED <<inputs, request_locals, error_type, delay, outcome, sent, retried, result>>

Next ==
    \/ Build
    \/ Send
    \/ HandleResponse
    \/ HandleTimeout
    \/ HandleRequestError
    \/ HandleOtherFault
    \/ Sleep

Spec == Init /\ [][Next]_vars

\* A call is sequential and blocking: whichever step is next is taken.
FairSpec == Spec /\ WF_vars(Next)

(***************************************************************************)
(* Properties                                                              *)
(***************************************************************************)
Returned_ == pc = "done"
Terminated == pc \in {"done", "raised"}
sends == Len(sent)

\* The latest outcome is an HTTP response.
GotResponse == outcome.kind = "response"

\* The kind _classify_error gives to a transport outcome.
OutcomeKind(o) ==
    IF o.kind = "response" THEN _classify_error(JNum(o.status), "none")
    ELSE _classify_error(JNull, o.kind)

\* The latest outcome is a success status whose body decodes, under a
\* config that has a response section.
GotDecodedSuccess ==
    /\ GotResponse
    /\ outcome.status < 400
    /\ outcome.body.decodable
    /\ IsSome(config.response)

ResponseFieldIs(path) == IsSome(config.response) /\ Val(config.response).response_field = Path(path)

Choices0 == <<"choices", ".", "0", ".", "message", ".", "content">>
Choices1 == <<"choices", ".", "1", ".", "message", ".", "content">>

\* C1: no exception leaves send_prompt: the call never ends by raising,
\* and a transport fault that is neither a timeout nor a request error
\* returns a failure of kind UNKNOWN.
C1_NoExceptionPropagates ==
    /\ pc # "raised"
    /\ (Returned_ /\ outcome.kind = "other") =>
           (~result.success /\ result.error_type = "UNKNOWN")

NonRetried == {"AUTH_ERROR", "BAD_REQUEST", "PARSE_ERROR"}

\* C2 as stated: under every RetryConfig, _should_retry is false at every
\* attempt for AUTH_ERROR, BAD_REQUEST and PARSE_ERROR.
C2_NeverRetriedUnderEveryRetryConfig ==
    \A kind \in NonRetried, n \in 0..MaxSends : ~_should_retry(retry_config, kind, n)

\* C2 amended: under a RetryConfig with the default retry_on, _should_retry
\* is false at every attempt for AUTH_ERROR, BAD_REQUEST and PARSE_ERROR, and
\* send_prompt is never about to sleep and resend after such an outcome.
C2_NeverRetriedUnderDefaultRetryOn ==
    retry_config.retry_on = DefaultRetryOn =>
        /\ \A kind \in NonRetried, n \in 0..MaxSends : ~_should_retry(retry_config, kind, n)
        /\ pc = "sleep" => error_type \notin NonRetried
        /\ \A i \in 1..Len(retried) : retried[i] \notin NonRetried

\* A 401 ended the call under the default retry_on with retries to spare.
C2_Witness ==
    /\ Returned_
    /\ retry_config.retry_on = DefaultRetryOn
    /\ result.error_type = "AUTH_ERROR"
    /\ result.retries < retry_config.max_retries

\* C3: under the default retry_on, a resend follows only an outcome that
\* classifies as RATE_LIMIT, SERVER_ERROR or TIMEOUT, and an outcome that
\* classifies as NETWORK_ERROR, UNKNOWN, AUTH_ERROR or BAD_REQUEST ends the
\* call in the step that handles it, with no further send.
C3_OnlyTransientKindsRetried ==
    [][retry_config.retry_on = DefaultRetryOn =>
        /\ (sends >= 1 /\ sent' # sent) =>
               OutcomeKind(outcome) \in {"RATE_LIMIT", "SERVER_ERROR", "TIMEOUT"}
        /\ (pc = "wait" /\ pc' # "wait" /\
            OutcomeKind(outcome') \in {"NETWORK_ERROR", "UNKNOWN", "AUTH_ERROR", "BAD_REQUEST"}) =>
               (pc' = "done" /\ sent' = sent /\ ~result'.success)]_vars

\* A second send is in flight after a 429 under the default retry_on.
C3_Witness ==
    /\ pc = "wait"
    /\ sends = 2
    /\ retry_config.retry_on = DefaultRetryOn
    /\ outcome.kind = "response" /\ outcome.status = 429

BackoffDelay(rc, n) == Min(rc.max_delay, rc.base_delay * Pow(rc.exponential_base, n))

DefaultRetryConfig ==
    RetryConfig(DefaultMaxRetries, DefaultBaseDelay, DefaultMaxDelay,
                DefaultExponentialBase, DefaultRetryOn)

\* C5: a call that ends on a success status whose response_field resolves
\* after k retried failures returns success with retries = k after exactly
\* k sleeps of delay(0), ..., delay(k-1) in this order; under the default
\* RetryConfig, 429, 429, 200 gives retries = 2 and sleeps of base_delay and
\* base_delay * exponential_base.
C5_RetryScenario ==
    (Returned_ /\ GotDecodedSuccess
       /\ Tag(_get_nested_value(outcome.body.data, Val(Val(config.response).response_field))) # "null") =>
        /\ result.success
        /\ result.retries = Len(retried)
        /\ sends = Len(retried) + 1
        /\ Len(slept) = Len(retried)
        /\ \A i \in 1..Len(slept) : slept[i] = BackoffDelay(retry_config, i - 1)
        /\ (retry_config = DefaultRetryConfig /\ retried = <<"RATE_LIMIT", "RATE_LIMIT">>) =>
               /\ result.retries = 2
               /\ slept = <<DefaultBaseDelay, DefaultBaseDelay * DefaultExponentialBase>>

\* 429, 429, 200 under the default RetryConfig.
C5_Witness ==
    /\ Returned_
    /\ retry_config = DefaultRetryConfig
    /\ retried = <<"RATE_LIMIT", "RATE_LIMIT">>
    /\ result.success
    /\ outcome.status = 200

\* C6: a success status whose decoded body has nothing at response_field
\* ends the call at once with a PARSE_ERROR failure, under every RetryConfig;
\* the body {"choices":[{"message":{"content":"hello"}}]} gives PARSE_ERROR
\* for "choices.1.message.content" and the content "hello" for
\* "choices.0.message.content".
C6_ParseErrorTerminal ==
    /\ (GotDecodedSuccess
          /\ Tag(_get_nested_value(outcome.body.data, Val(Val(config.response).response_field))) = "null") =>
           /\ Returned_
           /\ ~result.success
           /\ result.error_type = "PARSE_ERROR"
    /\ (GotDecodedSuccess /\ outcome.body = HelloBody /\ ResponseFieldIs(Choices1)) =>
           /\ Returned_
           /\ ~result.success
           /\ result.error_type = "PARSE_ERROR"
    /\ (GotDecodedSuccess /\ outcome.body = HelloBody /\ ResponseFieldIs(Choices0)) =>
           /\ Returned_
           /\ result.success
           /\ result.content = JStr(<<"hello">>)

\* The out-of-range path ended a call that had retries to spare under a
\* retry_on that lists PARSE_ERROR.
C6_Witness ==
    /\ Returned_
    /\ outcome.body = HelloBody /\ outcome.status = 200
    /\ ResponseFieldIs(Choices1)
    /\ result.error_type = "PARSE_ERROR"
    /\ "PARSE_ERROR" \in retry_config.retry_on
    /\ result.retries < retry_config.max_retries

\* C7: no send happens under a config whose request or response section is
\* absent.
C7_NoSendWithoutSections ==
    sends >= 1 => (IsSome(config.request) /\ IsSome(config.response))

\* C8: a returned ConnectorResponse has success <=> error absent,
\* content present <=> success, error_type = SUCCESS <=> success.
C8_UnifiedResponseInvariant ==
    Returned_ =>
        /\ result.success <=> (result.error = JNull)
        /\ (result.content # JNull) <=> result.success
        /\ (result.error_type = "SUCCESS") <=> result.success

\* A 404, which classifies through the last branch of _classify_error.
C8_Witness ==
    /\ Returned_
    /\ ~result.success
    /\ outcome.kind = "response" /\ outcome.status = 404

\* C9: a returned failure carries a message, a kind, the retries consumed,
\* the HTTP status when the final attempt got a response, and the decoded
\* payload when the final attempt got a body.
C9_FailureCarriesContext ==
    (Returned_ /\ ~result.success) =>
        /\ result.error # JNull
        /\ result.error_type \in ErrorType \ {"SUCCESS"}
        /\ result.retries = attempt
        /\ GotResponse => result.status_code = JNum(outcome.status)
        /\ (GotResponse /\ outcome.body.decodable) => result.raw_response = outcome.body.data

\* C10: the request is built once, before the first send, and every send
\* of the call carries that url, those headers and that body.
C10_RequestBuiltOnce ==
    /\ builds <= 1
    /\ sends >= 1 =>
        /\ builds = 1
        /\ url = BuildUrl(config).value
        /\ headers = _build_headers(config, credential).value
        /\ body = _build_body(config, credential, prompt).value
        /\ \A i \in 1..sends :
               sent[i] = ClientRequest(Val(config.request).method, url, headers, body)

\* A third send of the same call.
C10_Witness ==
    /\ sends >= 3
    /\ pc = "wait"

(***************************************************************************)
(* Functions called on their own                                           *)
(***************************************************************************)
\* The variables of a send_prompt call, which a function called on its own
\* leaves alone.
send_prompt_vars == <<config, credential, retry_config, prompt, pc, url, headers, body,
                      attempt, error_type, delay, outcome, builds, sent, slept, retried,
                      result>>

\* No send_prompt call is in progress.
NoCall ==
    /\ config = None
    /\ credential = <<>>
    /\ retry_config = DefaultRetryConfig
    /\ prompt = <<>>
    /\ pc = "unit"
    /\ url = JNull
    /\ headers = EmptyDict
    /\ body = JNull
    /\ attempt = 0
    /\ error_type = "unset"
    /\ delay = 0
    /\ outcome = NoOutcome
    /\ builds = 0
    /\ sent = <<>>
    /\ slept = <<>>
    /\ retried = <<>>
    /\ result = NoResponse

\* The arguments come from domain, and nothing has been called on them.
Called(domain) ==
    /\ args \in domain
    /\ rets = <<>>
    /\ heap = <<>>
    /\ rt = <<>>
    /\ NoCall

\* The n-th call on args comes back with r: Returned(x) or Raised.
Returns(n, r) ==
    /\ pc = "unit"
    /\ Len(rets) = n - 1
    /\ rets' = Append(rets, r)
    /\ UNCHANGED <<args, heap, rt, send_prompt_vars>>

(***************************************************************************)
(* _set_nested_value, then _get_nested_value  (src/src/runtime.py)         *)
(***************************************************************************)
Roots ==
    { JObj(EmptyDict),
      JObj(Dict(<< <<S("a"), JObj(Dict(<< <<S("b"), JStr(S("old"))>> >>))>> >>)),
      JObj(Dict(<< <<S("a"), JStr(S("x"))>> >>)),
      JObj(Dict(<< <<S("a"), JNull>> >>)),
      JObj(Dict(<< <<S("a"), JArr(<<JObj(Dict(<< <<S("b"), JStr(S("old"))>> >>))>>)>> >>)) }

DotPaths ==
    { <<"b">>,
      <<"a", ".", "b">>,
      <<"a", ".", "b", ".", "c">>,
      <<"a", ".", "0", ".", "b">>,
      <<"0", ".", "b">>,
      <<"a", ".", "0">> }

JsonValues ==
    { JStr(S("Hi")), JNum(1), JNull, JBool(TRUE),
      JObj(Dict(<< <<S("k"), JStr(S("v"))>> >>)),
      JArr(<<JStr(S("x"))>>) }

PathInit == Called([root : Roots, path : DotPaths, value : JsonValues])

\* self._set_nested_value(root, path, value): what comes back is the root
\* object as the call leaves it.
SetNested == Returns(1, _set_nested_value(args.root, args.path, args.value))

\* self._get_nested_value(root, path) on the root the first call left.
GetNested ==
    /\ Len(rets) = 1
    /\ rets[1].ok
    /\ Returns(2, Returned(_get_nested_value(rets[1].value, args.path)))

PathNext ==
    \/ SetNested
    \/ GetNested

PathSpec == PathInit /\ [][PathNext]_vars

\* The last segment of a dot-path.
TerminalSegment(path) == LET parts == Split(path, ".") IN parts[Len(parts)]

\* C11: for every root, value and dot-path whose terminal segment is no
\* array index, _set_nested_value returns and _get_nested_value on the root
\* it leaves gives the value back.
C11_PathRoundTrip ==
    (Len(rets) >= 1 /\ ~IsDigit(TerminalSegment(args.path))) =>
        /\ rets[1].ok
        /\ Len(rets) = 2 => rets[2].value = args.value

(***************************************************************************)
(* _build_body called on its own  (src/src/runtime.py)                     *)
(***************************************************************************)
\* The static_fields templates of the configurations drawn.
BodyTemplates ==
    { JObj(EmptyDict),
      JObj(Dict(<< <<S("model"), JStr(S("m"))>> >>)),
      JObj(Dict(<< <<S("input"), JObj(Dict(<< <<S("lang"), JStr(S("en"))>> >>))>> >>)),
      JObj(Dict(<<
          <<S("model"), JStr(S("gpt"))>>,
          <<S("messages"), JArr(<<JObj(Dict(<<
              <<S("role"), JStr(S("user"))>>,
              <<S("content"), JStr(S("{prompt}"))>> >>))>>)>> >>)),
      JObj(Dict(<<
          <<S("text"), JStr(<<"Q: ", "{prompt}", " A:">>)>>,
          <<S("n"), JNum(1)>>,
          <<S("meta"), JObj(Dict(<< <<S("echo"), JStr(<<"{prompt}", " ", "{prompt}">>)>> >>))>> >>)),
      JObj(Dict(<< <<S("{prompt}"), JStr(S("x"))>> >>)) }

PromptFields == { <<"prompt">>, <<"messages">>, <<"input", ".", "text">> }

BodyPrompts == { <<"Hi">>, <<"Say ", "{prompt}">> }

RequestWith(static_fields, prompt_field) ==
    JObj(Dict(<<
        <<S("endpoint"), JStr(<<"/", "generate">>)>>,
        <<S("prompt_field"), Path(prompt_field)>>,
        <<S("static_fields"), static_fields>> >>))

BodyConfigFiles ==
    { ConfigFile("body", BaseUrl, auth, RequestWith(static_fields, prompt_field), ChoicesResponse) :
        auth \in {JNull, BearerAuth, BodyAuth},
        static_fields \in BodyTemplates,
        prompt_field \in PromptFields }

BodyInit ==
    Called([config : {from_dict(data) : data \in BodyConfigFiles},
            credential : Credentials,
            prompt : BodyPrompts])

\* self._build_body(prompt)
BuildBody == Returns(1, _build_body(args.config, args.credential, args.prompt))

BodySpec == BodyInit /\ [][BuildBody]_vars

\* Some string held as a value, at any depth, contains "{prompt}".
RECURSIVE SomeStringHasPlaceholder(_)
SomeStringHasPlaceholder(x) ==
    CASE Tag(x) = "str" -> Contains(Val(x), "{prompt}")
      [] Tag(x) = "arr" -> \E i \in 1..Len(Val(x)) : SomeStringHasPlaceholder(Val(x)[i])
      [] Tag(x) = "obj" -> \E k \in DOMAIN Val(x) : SomeStringHasPlaceholder(Val(x)[k])
      [] OTHER -> FALSE

\* The body without the key a body-located credential is written at.
WithoutCredential(c, b) ==
    IF IsAuthType(c, "body")
    THEN JObj([k \in DOMAIN Val(b) \ {Val(Val(c.auth).key_name)} |-> Val(b)[k]])
    ELSE b

ChatTemplate == Val(ChatRequest)[S("static_fields")]

\* C12: _build_body returns; when some string inside static_fields contains
\* "{prompt}" the body is static_fields with every occurrence replaced by the
\* prompt and nothing else different (the chat template with prompt "Hi"
\* gives messages[0].content = "Hi"); otherwise the body is static_fields
\* with the prompt at prompt_field and every other key as it was.
C12_PromptInjectionStrategy ==
    Len(rets) = 1 =>
        LET static_fields == Val(args.config.request).static_fields
            prompt_field == Val(Val(args.config.request).prompt_field)
            first == Head(Split(prompt_field, "."))
            built == WithoutCredential(args.config, rets[1].value)
        IN /\ rets[1].ok
           /\ IF SomeStringHasPlaceholder(static_fields)
              THEN /\ built = _replace_prompt_placeholder(static_fields, args.prompt)
                   /\ (static_fields = ChatTemplate /\ args.prompt = <<"Hi">>) =>
                          /\ _get_nested_value(built, <<"messages", ".", "0", ".", "content">>) = JStr(<<"Hi">>)
                          /\ Val(built)[S("model")] = Val(static_fields)[S("model")]
              ELSE /\ _get_nested_value(built, prompt_field) = JStr(args.prompt)
                   /\ DOMAIN Val(built) = DOMAIN Val(static_fields) \cup {first}
                   /\ \A k \in DOMAIN Val(static_fields) \ {first} :
                          Val(built)[k] = Val(static_fields)[k]

(***************************************************************************)
(* Several ConnectorRuntime instances sharing one ConnectorConfig          *)
(*                                                                         *)
(* Python dicts and lists are objects: heap[a] is the dict or list at      *)
(* address a, and a slot of it holds a str, number, bool or None, or the   *)
(* reference <<"ref", a>> to another dict or list.  A runtime's headers    *)
(* and body live until its call returns.                                   *)
(***************************************************************************)
\* Largest number of send_prompt calls one runtime makes.
MaxCalls == 2

Runtimes == {1, 2}

Ref(a) == <<"ref", a>>
IsRef(x) == Tag(x) = "ref"

\* An address is <<owner, n>>: owner 0 is the config, owner r the locals of
\* the call runtime r is in.
Owned(h, owner) == {a \in DOMAIN h : a[1] = owner}

\* A new dict or list, referenced from a local of owner.
Alloc(h, owner, cell) ==
    LET a == <<owner, Cardinality(Owned(h, owner)) + 1>>
    IN [heap |-> [b \in DOMAIN h \cup {a} |-> IF b = a THEN cell ELSE h[b]],
        slot |-> Ref(a)]

\* The locals of owner go out of scope.
Release(h, owner) == [a \in DOMAIN h \ Owned(h, owner) |-> h[a]]

\* The value a slot stands for.
RECURSIVE Deref(_, _)
Deref(h, x) ==
    IF ~IsRef(x) THEN x
    ELSE LET cell == h[Val(x)] IN
         IF Tag(cell) = "obj"
         THEN JObj([k \in DOMAIN Val(cell) |-> Deref(h, Val(cell)[k])])
         ELSE JArr([i \in 1..Len(Val(cell)) |-> Deref(h, Val(cell)[i])])

\* New dicts and lists for every container of the value x.
RECURSIVE New(_, _, _)
RECURSIVE NewItems(_, _, _)
New(h, owner, x) ==
    IF Tag(x) = "arr"
    THEN LET r == NewItems(h, owner, Val(x))
         IN Alloc(r.heap, owner, JArr(r.slots))
    ELSE IF Tag(x) = "obj"
    THEN LET ks == KeySeq(DOMAIN Val(x))
             r == NewItems(h, owner, [i \in 1..Len(ks) |-> Val(x)[ks[i]]])
             cell == [k \in DOMAIN Val(x) |-> r.slots[CHOOSE i \in 1..Len(ks) : ks[i] = k]]
         IN Alloc(r.heap, owner, JObj(cell))
    ELSE [heap |-> h, slot |-> x]

NewItems(h, owner, xs) ==
    IF Len(xs) = 0 THEN [heap |-> h, slots |-> <<>>]
    ELSE LET a == New(h, owner, Head(xs))
             b == NewItems(a.heap, owner, Tail(xs))
         IN [heap |-> b.heap, slots |-> <<a.slot>> \o b.slots]

\* Variant: copy.copy, a new outer container over the same inner ones.
copy_copy(h, owner, x) ==
    IF IsRef(x) THEN Alloc(h, owner, h[Val(x)]) ELSE [heap |-> h, slot |-> x]

\* copy.deepcopy(x)
copy_deepcopy(h, owner, x) == New(h, owner, Deref(h, x))

IsDictAt(h, x) == IsRef(x) /\ Tag(h[Val(x)]) = "obj"

\* _set_nested_value(obj, path, value) as the stores it performs: the heap
\* the call leaves; ok is FALSE when it raises.
RECURSIVE StoreParts(_, _, _, _, _)
StoreParts(h, owner, current, parts, value) ==
    IF Len(parts) = 1
    THEN IF IsDigit(parts[1]) THEN [ok |-> TRUE, heap |-> h]
         ELSE IF IsDictAt(h, current)
              THEN [ok |-> TRUE,
                    heap |-> [h EXCEPT ![Val(current)] = JObj(DictSet(Val(@), parts[1], value))]]
              ELSE [ok |-> FALSE, heap |-> h]
    ELSE IF IsDigit(Head(parts)) THEN StoreParts(h, owner, current, Tail(parts), value)
    ELSE IF ~IsDictAt(h, current) THEN [ok |-> FALSE, heap |-> h]
    ELSE LET part == Head(parts)
             cell == Val(h[Val(current)])
             made == Alloc(h, owner, JObj(EmptyDict))
         IN IF part \in DOMAIN cell
            THEN StoreParts(h, owner, cell[part], Tail(parts), value)
            ELSE StoreParts([made.heap EXCEPT ![Val(current)] = JObj(DictSet(cell, part, made.slot))],
                            owner, made.slot, Tail(parts), value)

\* The configurations shared, each with extra_headers.
SharedConfigFiles ==
    { ConfigFile("shared", BaseUrl, auth,
          JObj(Dict(<<
              <<S("endpoint"), JStr(<<"/", "generate">>)>>,
              <<S("prompt_field"), Path(prompt_field)>>,
              <<S("static_fields"), static_fields>>,
              <<S("extra_headers"), JObj(Dict(<< <<S("x-version"), JStr(S("v"))>> >>))>> >>)),
          ChoicesResponse) :
        auth \in {BearerAuth, BodyAuth},
        static_fields \in { JObj(Dict(<< <<S("model"), JStr(S("m"))>> >>)),
                            JObj(Dict(<< <<S("input"), JObj(Dict(<< <<S("lang"), JStr(S("en"))>> >>))>> >>)),
                            JObj(Dict(<< <<S("input"), JStr(S("x"))>> >>)),
                            ChatTemplate },
        prompt_field \in { <<"prompt">>, <<"input", ".", "text">> } }

\* self.config.request.static_fields and .extra_headers, the first objects
\* made when the config is loaded.
StaticFieldsAt(c) == New(<<>>, 0, Val(c.request).static_fields)
ExtraHeadersAt(c) == New(StaticFieldsAt(c).heap, 0, Val(c.request).extra_headers)

Idle(calls) == [pc |-> "idle", prompt |-> <<>>, headers |-> JNull, body |-> JNull, calls |-> calls]

SharedInit ==
    /\ args \in [config : {from_dict(data) : data \in SharedConfigFiles},
                 credential : Credentials]
    /\ rets = <<>>
    /\ heap = ExtraHeadersAt(args.config).heap
    /\ rt = [r \in Runtimes |-> Idle(0)]
    /\ NoCall

\* send_prompt(prompt) is entered.
Call(r) ==
    /\ rt[r].pc = "idle"
    /\ rt[r].calls < MaxCalls
    /\ \E p \in BodyPrompts :
           rt' = [rt EXCEPT ![r] = [@ EXCEPT !.pc = "headers", !.prompt = p, !.calls = @ + 1]]
    /\ UNCHANGED <<heap, args, rets, send_prompt_vars>>

\* headers = self._build_headers()
BuildHeaders(r) ==
    /\ rt[r].pc = "headers"
    /\ LET c == args.config
           extra == ExtraHeadersAt(c).slot
           base == (<<"Content-Type">> :> Val(c.request).content_type)
           h1 == IF Truthy(Deref(heap, extra)) THEN DictUpdate(base, Val(heap[Val(extra)])) ELSE base
           auth_value == Format(Val(Val(c.auth).value_template), args.credential)
       IN IF IsAuthType(c, "header") /\ ~auth_value.ok
          THEN /\ rt' = [rt EXCEPT ![r] = Idle(@.calls)]
               /\ heap' = Release(heap, r)
          ELSE LET made == Alloc(heap, r, JObj(IF IsAuthType(c, "header")
                                              THEN DictSet(h1, Val(Val(c.auth).key_name), JStr(auth_value.value))
                                              ELSE h1))
               IN /\ heap' = made.heap
                  /\ rt' = [rt EXCEPT ![r] = [@ EXCEPT !.pc = "copy", !.headers = made.slot]]
    /\ UNCHANGED <<args, rets, send_prompt_vars>>

\* body = copy.deepcopy(self.config.request.static_fields)
Copy(r) ==
    /\ rt[r].pc = "copy"
    /\ LET made == copy_deepcopy(heap, r, StaticFieldsAt(args.config).slot)
       IN /\ heap' = made.heap
          /\ rt' = [rt EXCEPT ![r] = [@ EXCEPT !.pc = "inject", !.body = made.slot]]
    /\ UNCHANGED <<args, rets, send_prompt_vars>>

\* The prompt goes into the body, by substitution or at prompt_field.
Inject(r) ==
    /\ rt[r].pc = "inject"
    /\ IF HasPlaceholder(Deref(heap, rt[r].body))
       THEN LET made == New(heap, r, _replace_prompt_placeholder(Deref(heap, rt[r].body), rt[r].prompt))
            IN /\ heap' = made.heap
               /\ rt' = [rt EXCEPT ![r] = [@ EXCEPT !.pc = "auth", !.body = made.slot]]
       ELSE LET stored == StoreParts(heap, r, rt[r].body,
                                     Split(Val(Val(args.config.request).prompt_field), "."),
                                     JStr(rt[r].prompt))
            IN IF stored.ok
               THEN /\ heap' = stored.heap
                    /\ rt' = [rt EXCEPT ![r] = [@ EXCEPT !.pc = "auth"]]
               ELSE /\ heap' = Release(stored.heap, r)
                    /\ rt' = [rt EXCEPT ![r] = Idle(@.calls)]
    /\ UNCHANGED <<args, rets, send_prompt_vars>>

\* The credential goes into the body when auth.type is "body".
InjectAuth(r) ==
    /\ rt[r].pc = "auth"
    /\ LET c == args.config
           auth_value == Format(Val(Val(c.auth).value_template), args.credential)
           stored == StoreParts(heap, r, rt[r].body, Split(Val(Val(c.auth).key_name), "."),
                                JStr(auth_value.value))
       IN IF ~IsAuthType(c, "body")
          THEN /\ rt' = [rt EXCEPT ![r] = [@ EXCEPT !.pc = "built"]]
               /\ UNCHANGED heap
          ELSE IF auth_value.ok /\ stored.ok
          THEN /\ rt' = [rt EXCEPT ![r] = [@ EXCEPT !.pc = "built"]]
               /\ heap' = stored.heap
          ELSE /\ rt' = [rt EXCEPT ![r] = Idle(@.calls)]
               /\ heap' = Release(stored.heap, r)
    /\ UNCHANGED <<args, rets, send_prompt_vars>>

\* The request is sent, once or more, and send_prompt returns: headers and
\* body go out of scope.
Finish(r) ==
    /\ rt[r].pc = "built"
    /\ rt' = [rt EXCEPT ![r] = Idle(@.calls)]
    /\ heap' = Release(heap, r)
    /\ UNCHANGED <<args, rets, send_prompt_vars>>

SharedNext ==
    \E r \in Runtimes :
        \/ Call(r)
        \/ BuildHeaders(r)
        \/ Copy(r)
        \/ Inject(r)
        \/ InjectAuth(r)
        \/ Finish(r)

SharedSpec == SharedInit /\ [][SharedNext]_vars

\* C13: whatever calls the runtimes sharing a config have made, and however
\* they interleave, static_fields and extra_headers hold what they held when
\* the config was loaded, and no other field of the config changes.
C13_ConfigNeverMutated ==
    /\ Deref(heap, StaticFieldsAt(args.config).slot) = Val(args.config.request).static_fields
    /\ Deref(heap, ExtraHeadersAt(args.config).slot) = Val(args.config.request).extra_headers
    /\ \E data \in SharedConfigFiles : args.config = from_dict(data)

\* Both runtimes are in their last call, each holding a body of its own in
\* whose nested dict "input" its prompt has been written, under a
\* body-located credential.
C13_Witness ==
    /\ \A r \in Runtimes : rt[r].pc = "built" /\ rt[r].calls = MaxCalls
    /\ Val(args.config.request).prompt_field = Path(<<"input", ".", "text">>)
    /\ S("input") \in DOMAIN Val(Val(args.config.request).static_fields)
    /\ \A r \in Runtimes :
           _get_nested_value(Deref(heap, rt[r].body), <<"input", ".", "text">>) = JStr(rt[r].prompt)
    /\ IsAuthType(args.config, "body")

(***************************************************************************)
(* _classify_error called on its own, beside the calls of send_prompt      *)
(***************************************************************************)
\* Every HTTP status code, and None.
StatusCodes == {JNull} \cup {JNum(n) : n \in 100..599}

Exceptions == {"none", "timeout", "request_error", "other"}

ClassifyInit == Called([status_code : StatusCodes, exception : Exceptions])

\* self._classify_error(status_code, exception)
Classify == Returns(1, Returned(_classify_error(args.status_code, args.exception)))

\* Either send_prompt runs, or _classify_error is called on its own.
ClassifySpec == (Init \/ ClassifyInit) /\ [][Next \/ Classify]_vars

\* The table of kinds by status code.
KindOfStatus(n) ==
    CASE n \in {401, 403} -> "AUTH_ERROR"
      [] n = 429 -> "RATE_LIMIT"
      [] n = 400 -> "BAD_REQUEST"
      [] n >= 500 -> "SERVER_ERROR"
      [] n \in 400..499 \ {400, 401, 403, 429} -> "UNKNOWN"
      [] n < 400 -> "SUCCESS"

\* The table of kinds by exception.
KindOfException(x) ==
    CASE x = "timeout" -> "TIMEOUT"
      [] x = "request_error" -> "NETWORK_ERROR"
      [] x = "other" -> "UNKNOWN"

\* _classify_error returns a kind for every argument, and the kind of the
\* tables for an exception or a status code.
ClassifiedByTable ==
    (pc = "unit" /\ Len(rets) = 1) =>
        /\ rets[1].ok
        /\ rets[1].value \in ErrorType
        /\ args.exception # "none" => rets[1].value = KindOfException(args.exception)
        /\ (args.exception = "none" /\ Tag(args.status_code) = "num") =>
               rets[1].value = KindOfStatus(Val(args.status_code))

\* The kind send_prompt holds for the latest outcome, once it has handled it.
HandledKind == IF pc = "sleep" THEN error_type ELSE result.error_type

\* C14 as stated: _classify_error follows the tables, and the kind
\* send_prompt assigns to every transport outcome is the kind _classify_error
\* gives for it.
C14_KindIsClassifiedKindOfEveryOutcome ==
    /\ ClassifiedByTable
    /\ pc \in {"sleep", "done"} => HandledKind = OutcomeKind(outcome)

\* C14 amended: _classify_error follows the tables; the kind send_prompt
\* assigns to an exception or to a status of 400 and above is the kind
\* _classify_error gives for it; for a status below 400, which
\* _classify_error gives SUCCESS, send_prompt returns SUCCESS when
\* response_field resolves, PARSE_ERROR when the decoded body has nothing
\* there, and UNKNOWN when the body does not decode or the config has no
\* response section.
C14_KindIsClassifiedKindOfFailures ==
    /\ ClassifiedByTable
    /\ (pc \in {"sleep", "done"} /\ (~GotResponse \/ outcome.status >= 400)) =>
           HandledKind = OutcomeKind(outcome)
    /\ (pc \in {"sleep", "done"} /\ GotResponse /\ outcome.status < 400) =>
           /\ pc = "done"
           /\ OutcomeKind(outcome) = "SUCCESS"
           /\ result.error_type =
                  IF ~GotDecodedSuccess THEN "UNKNOWN"
                  ELSE IF Tag(_get_nested_value(outcome.body.data,
                                                Val(Val(config.response).response_field))) = "null"
                       THEN "PARSE_ERROR"
                       ELSE "SUCCESS"

\* _classify_error has been called on 403.
C14_Witness ==
    /\ pc = "unit"
    /\ Len(rets) = 1
    /\ args.exception = "none"
    /\ args.status_code = JNum(403)
    /\ rets[1].value = "AUTH_ERROR"

(***************************************************************************)
(* _calculate_delay called on its own  (src/src/runtime.py)                *)
(*                                                                         *)
(* base_delay, max_delay and exponential_base are Python floats, as the    *)
(* dataclass annotates them.  A float is an IEEE 754 double: x ** n raises *)
(* OverflowError when the power reaches 2^1024.  The exponential_base      *)
(* drawn here is a power of two, for which that test is exact.             *)
(***************************************************************************)
\* Largest attempt drawn.
MaxAttempt == 1025

\* 2^FloatMaxExp is the first power of two that is no float.
FloatMaxExp == 1024

\* log2 of a power of two.
Log2(b) == CHOOSE k \in 0..30 : Pow(2, k) = b

\* exponential_base ** attempt raises OverflowError.
PowOverflows(b, n) == b > 1 /\ n * Log2(b) >= FloatMaxExp

\* b ** n while it is below cap, and cap from there on.
RECURSIVE SatPowFrom(_, _, _, _)
SatPowFrom(acc, b, n, cap) ==
    IF n = 0 \/ b = 1 \/ acc >= cap THEN Min(acc, cap)
    ELSE SatPowFrom(acc * b, b, n - 1, cap)

SatPow(b, n, cap) == SatPowFrom(1, b, n, cap)

\* self._calculate_delay(attempt) as a call.  With base_delay >= 1, the
\* minimum with max_delay is the same whether the power is taken exactly or
\* up to max_delay.
_calculate_delay_call(rc, n) ==
    IF PowOverflows(rc.exponential_base, n) THEN Raised
    ELSE Returned(Min(rc.base_delay * SatPow(rc.exponential_base, n, rc.max_delay), rc.max_delay))

DelayConfigs ==
    { RetryConfig(DefaultMaxRetries, base_delay, max_delay, exponential_base, DefaultRetryOn) :
        base_delay \in {DefaultBaseDelay, 2},
        max_delay \in {5, DefaultMaxDelay},
        exponential_base \in {1, DefaultExponentialBase, 4} }

DelayInit == Called([retry_config : DelayConfigs, attempt : 0..MaxAttempt])

\* self._calculate_delay(attempt)
CalculateDelay == Returns(1, _calculate_delay_call(args.retry_config, args.attempt))

\* self._calculate_delay(attempt + 1)
CalculateNextDelay == Returns(2, _calculate_delay_call(args.retry_config, args.attempt + 1))

DelayNext ==
    \/ CalculateDelay
    \/ CalculateNextDelay

DelaySpec == DelayInit /\ [][DelayNext]_vars

\* Attempts up to which the model takes the power exactly.
ExactAttempts == 0..10

\* C15: for every attempt n >= 0, _calculate_delay(n) returns
\* min(max_delay, base_delay * exponential_base^n), which is at most
\* max_delay, and _calculate_delay(n + 1) returns no less.
C15_BackoffDelay ==
    /\ Len(rets) >= 1 =>
           /\ rets[1].ok
           /\ args.attempt \in ExactAttempts =>
                  rets[1].value = BackoffDelay(args.retry_config, args.attempt)
           /\ rets[1].value <= args.retry_config.max_delay
    /\ Len(rets) = 2 =>
           /\ rets[2].ok
           /\ rets[2].value >= rets[1].value

(***************************************************************************)
(* ConnectorConfig.to_dict, then from_dict  (src/src/config_schema.py)     *)
(***************************************************************************)
\* "x if self.section else None": a dataclass instance is always true.
SectionDict(section, pairs) == IF IsSome(section) THEN JObj(Dict(pairs)) ELSE JNull

\* Variant: the request section is written without its method.
to_dict_without_method(c) ==
    Dict(<<
        <<S("name"), c.name>>,
        <<S("provider"), c.provider>>,
        <<S("version"), c.version>>,
        <<S("base_url"), c.base_url>>,
        <<S("auth"), SectionDict(c.auth, <<
            <<S("type"), Val(c.auth).type>>,
            <<S("key_name"), Val(c.auth).key_name>>,
            <<S("value_template"), Val(c.auth).value_template>> >>)>>,
        <<S("request"), SectionDict(c.request, <<
            <<S("endpoint"), Val(c.request).endpoint>>,
            <<S("prompt_field"), Val(c.request).prompt_field>>,
            <<S("static_fields"), Val(c.request).static_fields>>,
            <<S("content_type"), Val(c.request).content_type>>,
            <<S("extra_headers"), Val(c.request).extra_headers>> >>)>>,
        <<S("response"), SectionDict(c.response, <<
            <<S("response_field"), Val(c.response).response_field>>,
            <<S("error_field"), Val(c.response).error_field>> >>)>>,
        <<S("streaming"), c.streaming>>,
        <<S("timeout_seconds"), c.timeout_seconds>> >>)

to_dict(c) ==
    Dict(<<
        <<S("name"), c.name>>,
        <<S("provider"), c.provider>>,
        <<S("version"), c.version>>,
        <<S("base_url"), c.base_url>>,
        <<S("auth"), SectionDict(c.auth, <<
            <<S("type"), Val(c.auth).type>>,
            <<S("key_name"), Val(c.auth).key_name>>,
            <<S("value_template"), Val(c.auth).value_template>> >>)>>,
        <<S("request"), SectionDict(c.request, <<
            <<S("endpoint"), Val(c.request).endpoint>>,
            <<S("method"), Val(c.request).method>>,
            <<S("prompt_field"), Val(c.request).prompt_field>>,
            <<S("static_fields"), Val(c.request).static_fields>>,
            <<S("content_type"), Val(c.request).content_type>>,
            <<S("extra_headers"), Val(c.request).extra_headers>> >>)>>,
        <<S("response"), SectionDict(c.response, <<
            <<S("response_field"), Val(c.response).response_field>>,
            <<S("error_field"), Val(c.response).error_field>> >>)>>,
        <<S("streaming"), c.streaming>>,
        <<S("timeout_seconds"), c.timeout_seconds>> >>)

\* ConnectorConfig(...) as a caller constructs it.
ConnectorConfig(name, provider, base_url, auth, request, response, version, streaming, timeout_seconds) ==
    [name |-> name, provider |-> provider, version |-> version, base_url |-> base_url,
     auth |-> auth, request |-> request, response |-> response,
     streaming |-> streaming, timeout_seconds |-> timeout_seconds]

AuthConfigs ==
    {None} \cup
    { Some(AuthConfig(JStr(S(type)), JStr(S("api_key")), JStr(S("{credential}")))) :
        type \in {"header", "query", "body"} }

RequestMappings ==
    {None} \cup
    { Some(RequestMapping(JStr(<<"/", "generate">>), JStr(S(method)), Path(<<"prompt">>),
                          static_fields, JStr(content_type), extra_headers)) :
        method \in {"POST", "GET"},
        static_fields \in {JObj(EmptyDict), JObj(Dict(<< <<S("model"), JStr(S("m"))>> >>)), ChatTemplate},
        content_type \in {<<"application", "/", "json">>, <<"text", "/", "plain">>},
        extra_headers \in {JObj(EmptyDict), JObj(Dict(<< <<S("x-version"), JStr(S("v"))>> >>))} }

ResponseMappings ==
    {None} \cup
    { Some(ResponseMapping(Path(<<"response">>), error_field)) :
        error_field \in {JNull, Path(<<"error", ".", "message">>)} }

ConnectorConfigs ==
    { ConnectorConfig(JStr(S("n")), JStr(S("p")), JStr(BaseUrl), auth, request, response,
                      JStr(version), JBool(streaming), JNum(timeout_seconds)) :
        auth \in AuthConfigs,
        request \in RequestMappings,
        response \in ResponseMappings,
        version \in {<<"1", ".", "0">>, <<"2", ".", "0">>},
        streaming \in BOOLEAN,
        timeout_seconds \in {30, 60} }

ConfigInit == Called([config : ConnectorConfigs])

\* config.to_dict()
ToDict == Returns(1, Returned(JObj(to_dict(args.config))))

\* ConnectorConfig.from_dict(d) on the dict to_dict returned.
FromDict ==
    /\ Len(rets) = 1
    /\ Returns(2, Returned(from_dict(Val(rets[1].value))))

ConfigNext ==
    \/ ToDict
    \/ FromDict

ConfigSpec == ConfigInit /\ [][ConfigNext]_vars

\* C16: for every ConnectorConfig c, with each of auth, request and
\* response present or absent and static_fields and extra_headers empty or
\* not, from_dict(c.to_dict()) equals c.
C16_ConfigRoundTrip ==
    Len(rets) = 2 => rets[2].value = args.config

\* The round trip of a config without auth, whose request has method GET and
\* empty static_fields and extra_headers, and whose response has no
\* error_field.
C16_Witness ==
    /\ Len(rets) = 2
    /\ args.config.auth = None
    /\ IsSome(args.config.request)
    /\ Val(args.config.request).method = JStr(S("GET"))
    /\ Val(args.config.request).static_fields = JObj(EmptyDict)
    /\ Val(args.config.request).extra_headers = JObj(EmptyDict)
    /\ IsSome(args.config.response)
    /\ Val(args.config.response).error_field = JNull

(***************************************************************************)
(* OpenAPIParser  (src/src/openapi_parser.py)                              *)
(*                                                                         *)
(* The parser searches strings for keywords character by character, so the *)
(* word tokens of a str are spelled out where it does: Spelling gives the  *)
(* characters of each word token; every other token is one character.      *)
(* Scores are carried in tenths, which keeps the weights 0.5 and 0.3 in    *)
(* the integers.                                                           *)
(***************************************************************************)
Spelling ==
    ("chat" :> <<"c", "h", "a", "t">>) @@
    ("completions" :> <<"c", "o", "m", "p", "l", "e", "t", "i", "o", "n", "s">>) @@
    ("completion" :> <<"c", "o", "m", "p", "l", "e", "t", "i", "o", "n">>) @@
    ("messages" :> <<"m", "e", "s", "s", "a", "g", "e", "s">>) @@
    ("message" :> <<"m", "e", "s", "s", "a", "g", "e">>) @@
    ("generate" :> <<"g", "e", "n", "e", "r", "a", "t", "e">>) @@
    ("inference" :> <<"i", "n", "f", "e", "r", "e", "n", "c", "e">>) @@
    ("converse" :> <<"c", "o", "n", "v", "e", "r", "s", "e">>) @@
    ("ask" :> <<"a", "s", "k">>) @@
    ("list" :> <<"l", "i", "s", "t">>) @@
    ("delete" :> <<"d", "e", "l", "e", "t", "e">>) @@
    ("get" :> <<"g", "e", "t">>) @@
    ("models" :> <<"m", "o", "d", "e", "l", "s">>) @@
    ("files" :> <<"f", "i", "l", "e", "s">>) @@
    ("embeddings" :> <<"e", "m", "b", "e", "d", "d", "i", "n", "g", "s">>) @@
    ("images" :> <<"i", "m", "a", "g", "e", "s">>) @@
    ("audio" :> <<"a", "u", "d", "i", "o">>) @@
    ("fine-tune" :> <<"f", "i", "n", "e", "-", "t", "u", "n", "e">>) @@
    ("batch" :> <<"b", "a", "t", "c", "h">>) @@
    ("prompt" :> <<"p", "r", "o", "m", "p", "t">>) @@
    ("content" :> <<"c", "o", "n", "t", "e", "n", "t">>) @@
    ("input" :> <<"i", "n", "p", "u", "t">>) @@
    ("text" :> <<"t", "e", "x", "t">>) @@
    ("query" :> <<"q", "u", "e", "r", "y">>) @@
    ("Chat" :> <<"C", "h", "a", "t">>) @@
    ("Models" :> <<"M", "o", "d", "e", "l", "s">>) @@
    ("Messages" :> <<"M", "e", "s", "s", "a", "g", "e", "s">>) @@
    ("Prompt" :> <<"P", "r", "o", "m", "p", "t">>) @@
    ("complete" :> <<"c", "o", "m", "p", "l", "e", "t", "e">>) @@
    ("create" :> <<"c", "r", "e", "a", "t", "e">>) @@
    ("Create" :> <<"C", "r", "e", "a", "t", "e">>) @@
    ("model" :> <<"m", "o", "d", "e", "l">>) @@
    ("api" :> <<"a", "p", "i">>) @@
    ("reply" :> <<"r", "e", "p", "l", "y">>) @@
    ("user" :> <<"u", "s", "e", "r">>) @@
    ("role" :> <<"r", "o", "l", "e">>) @@
    ("openai" :> <<"o", "p", "e", "n", "a", "i">>) @@
    ("anthropic" :> <<"a", "n", "t", "h", "r", "o", "p", "i", "c">>) @@
    ("cohere" :> <<"c", "o", "h", "e", "r", "e">>) @@
    ("OpenAI" :> <<"O", "p", "e", "n", "A", "I">>) @@
    ("Acme" :> <<"A", "c", "m", "e">>) @@
    ("API" :> <<"A", "P", "I">>)

Spell(tok) == IF tok \in DOMAIN Spelling THEN Spelling[tok] ELSE <<tok>>

\* The characters of a str.
RECURSIVE Chars(_)
Chars(s) == IF Len(s) = 0 THEN <<>> ELSE Spell(Head(s)) \o Chars(Tail(s))

LowerCase ==
    ("A" :> "a") @@ ("B" :> "b") @@ ("C" :> "c") @@ ("D" :> "d") @@ ("E" :> "e")
    @@ ("F" :> "f") @@ ("G" :> "g") @@ ("H" :> "h") @@ ("I" :> "i") @@ ("J" :>
    "j") @@ ("K" :> "k") @@ ("L" :> "l") @@ ("M" :> "m") @@ ("N" :> "n") @@ ("O"
    :> "o") @@ ("P" :> "p") @@ ("Q" :> "q") @@ ("R" :> "r") @@ ("S" :> "s") @@
    ("T" :> "t") @@ ("U" :> "u") @@ ("V" :> "v") @@ ("W" :> "w") @@ ("X" :> "x")
    @@ ("Y" :> "y") @@ ("Z" :> "z")

RECURSIVE LowerChars(_)
LowerChars(cs) ==
    IF Len(cs) = 0 THEN <<>>
    ELSE <<IF Head(cs) \in DOMAIN LowerCase THEN LowerCase[Head(cs)] ELSE Head(cs)>>
         \o LowerChars(Tail(cs))

\* str.lower(), on the characters.
Lower(s) == LowerChars(Chars(s))

\* "keyword in text" for two character sequences.
IsSubstring(keyword, text) ==
    \E i \in 0..(Len(text) - Len(keyword)) : SubSeq(text, i + 1, i + Len(keyword)) = keyword

\* str.startswith(prefix), token by token.
StartsWith(s, prefix) == Len(s) >= Len(prefix) /\ SubSeq(s, 1, Len(prefix)) = prefix

PATH_KEYWORDS == <<
    <<"chat", 10>>, <<"completions", 8>>, <<"completion", 8>>, <<"messages", 9>>,
    <<"message", 7>>, <<"generate", 6>>, <<"inference", 5>>, <<"converse", 7>>, <<"ask", 4>> >>

NEGATIVE_KEYWORDS == <<
    <<"list", -5>>, <<"delete", -10>>, <<"get", -3>>, <<"models", -5>>, <<"files", -10>>,
    <<"embeddings", -8>>, <<"images", -8>>, <<"audio", -8>>, <<"fine-tune", -10>>, <<"batch", -8>> >>

REQUEST_FIELD_KEYWORDS == <<
    <<"messages", 10>>, <<"message", 8>>, <<"prompt", 9>>, <<"content", 6>>,
    <<"input", 5>>, <<"text", 5>>, <<"query", 4>> >>

\* Tenths per unit of weight: weight, weight * 0.5, weight * 0.3.
WholeWeight == 10
HalfWeight == 5
ThreeTenthsWeight == 3

\* "for keyword, weight in keywords.items(): if keyword in <one of texts>:
\* score += weight * w"
RECURSIVE KeywordScore(_, _, _)
KeywordScore(keywords, texts, w) ==
    IF Len(keywords) = 0 THEN 0
    ELSE (IF \E text \in texts : IsSubstring(Spell(Head(keywords)[1]), text)
          THEN Head(keywords)[2] * w ELSE 0)
         + KeywordScore(Tail(keywords), texts, w)

score_path(path) ==
    LET path_lower == Lower(path)
    IN KeywordScore(PATH_KEYWORDS, {path_lower}, WholeWeight)
       + KeywordScore(NEGATIVE_KEYWORDS, {path_lower}, WholeWeight)

\* d.get(k, {}) followed by another lookup: the value when it is a dict.
GetDict(d, k) == DictGet(d, k, JObj(EmptyDict))

\* resolve_ref: a pointer into the document, "#/" first.
RECURSIVE FollowRef(_, _)
FollowRef(current, parts) ==
    IF Len(parts) = 0 THEN current
    ELSE IF Tag(current) = "obj"
         THEN FollowRef(GetDict(Val(current), Head(parts)), Tail(parts))
         ELSE JObj(EmptyDict)

\* self.spec as resolve_ref walks it.
SpecDict(spec) ==
    JObj(Dict(<< <<S("info"), spec.info>>,
                 <<S("servers"), spec.servers>>,
                 <<S("paths"), JObj(Dict(spec.paths))>>,
                 <<S("components"),
                   JObj(Dict(<< <<S("schemas"), JObj(spec.schemas)>>,
                                <<S("securitySchemes"), JObj(Dict(spec.securitySchemes))>> >>))>> >>))

\* Variant: the pointer after the first "#" is followed in this document,
\* whatever stands before it.
resolve_ref_any_document(spec, ref) ==
    IF \A i \in 1..Len(ref) : ref[i] # "#" THEN JObj(EmptyDict)
    ELSE LET at == CHOOSE i \in 1..Len(ref) : ref[i] = "#" /\ \A j \in 1..(i - 1) : ref[j] # "#"
         IN FollowRef(SpecDict(spec), Split(SubSeq(ref, at + 2, Len(ref)), "/"))

resolve_ref(spec, ref) ==
    IF ~StartsWith(ref, <<"#", "/">>) THEN JObj(EmptyDict)
    ELSE FollowRef(SpecDict(spec), Split(SubSeq(ref, 3, Len(ref)), "/"))

get_schema(spec, schema_or_ref) ==
    IF S("$ref") \in DOMAIN Val(schema_or_ref)
    THEN resolve_ref(spec, Val(Val(schema_or_ref)[S("$ref")]))
    ELSE schema_or_ref

ApplicationJson == <<"application", "/", "json">>
AnyContentType == <<"*", "/", "*">>

\* "for content_type in ['application/json', '*/*']: if content_type in content"
ContentSchema(spec, content) ==
    IF ApplicationJson \in DOMAIN Val(content)
    THEN get_schema(spec, GetDict(Val(Val(content)[ApplicationJson]), S("schema")))
    ELSE IF AnyContentType \in DOMAIN Val(content)
    THEN get_schema(spec, GetDict(Val(Val(content)[AnyContentType]), S("schema")))
    ELSE JNull

_get_request_schema(spec, operation) ==
    ContentSchema(spec, GetDict(Val(GetDict(Val(operation), S("requestBody"))), S("content")))

Status200 == <<"2", "0", "0">>
Status201 == <<"2", "0", "1">>

_get_response_schema(spec, operation) ==
    LET responses == GetDict(Val(operation), S("responses"))
        success_response == DictGet(Val(responses), Status200, GetDict(Val(responses), Status201))
    IN ContentSchema(spec, GetDict(Val(success_response), S("content")))

\* One entry of _get_required_headers.
RequiredHeader(param) ==
    JObj(Dict(<<
        <<S("name"), DictGet(Val(param), S("name"), JNull)>>,
        <<S("value"), DictGet(Val(GetDict(Val(param), S("schema"))), S("example"), JStr(<<>>))>>,
        <<S("description"), DictGet(Val(param), S("description"), JStr(<<>>))>> >>))

RECURSIVE RequiredHeaders(_)
RequiredHeaders(params) ==
    IF Len(params) = 0 THEN <<>>
    ELSE (IF /\ DictGet(Val(Head(params)), S("in"), JNull) = JStr(S("header"))
             /\ Truthy(DictGet(Val(Head(params)), S("required"), JBool(FALSE)))
          THEN <<RequiredHeader(Head(params))>> ELSE <<>>)
         \o RequiredHeaders(Tail(params))

_get_required_headers(operation) ==
    RequiredHeaders(Val(DictGet(Val(operation), S("parameters"), JArr(<<>>))))

\* operation.get(key, '')
GetText(operation, key) == Val(DictGet(Val(operation), S(key), JStr(<<>>)))

\* REQUEST_FIELD_KEYWORDS[field_lower] * 0.5, or 0 when it is not a key.
RECURSIVE FieldWeight(_, _)
FieldWeight(keywords, field_lower) ==
    IF Len(keywords) = 0 THEN 0
    ELSE IF Spell(Head(keywords)[1]) = field_lower THEN Head(keywords)[2] * HalfWeight
    ELSE FieldWeight(Tail(keywords), field_lower)

\* "for field in props: if field.lower() in REQUEST_FIELD_KEYWORDS: ..."
RECURSIVE FieldScore(_)
FieldScore(fields) ==
    IF fields = {} THEN 0
    ELSE LET field == CHOOSE f \in fields : TRUE
         IN FieldWeight(REQUEST_FIELD_KEYWORDS, Lower(field)) + FieldScore(fields \ {field})

\* The score find_chat_endpoints gives a POST operation, in tenths.
OperationScore(spec, path, operation) ==
    LET op_id == Lower(GetText(operation, "operationId"))
        summary == Lower(GetText(operation, "summary"))
        description == Lower(GetText(operation, "description"))
        request_schema == _get_request_schema(spec, operation)
    IN score_path(path)
       + KeywordScore(PATH_KEYWORDS, {op_id}, HalfWeight)
       + KeywordScore(PATH_KEYWORDS, {summary, description}, ThreeTenthsWeight)
       + (IF Truthy(request_schema)
          THEN FieldScore(DOMAIN Val(GetDict(Val(request_schema), S("properties"))))
          ELSE 0)

EndpointCandidate(spec, path, operation) ==
    [path |-> path,
     method |-> S("POST"),
     operation_id |-> GetText(operation, "operationId"),
     summary |-> GetText(operation, "summary"),
     description |-> GetText(operation, "description"),
     score |-> OperationScore(spec, path, operation),
     request_schema |-> _get_request_schema(spec, operation),
     response_schema |-> _get_response_schema(spec, operation),
     required_headers |-> _get_required_headers(operation)]

\* The loop over self.paths.items(), in document order.
RECURSIVE Candidates(_, _)
Candidates(spec, items) ==
    IF Len(items) = 0 THEN <<>>
    ELSE LET path == Head(items)[1]
             path_item == Head(items)[2]
             c == EndpointCandidate(spec, path, Val(path_item)[S("post")])
         IN (IF S("post") \notin DOMAIN Val(path_item) THEN <<>>
             ELSE IF c.score > 0 THEN <<c>> ELSE <<>>)
            \o Candidates(spec, Tail(items))

\* Variant: an element goes in front of the elements of equal score.
InsertByScoreFirst(sorted, c) ==
    LET n == Cardinality({i \in 1..Len(sorted) : sorted[i].score > c.score})
    IN SubSeq(sorted, 1, n) \o <<c>> \o SubSeq(sorted, n + 1, Len(sorted))

\* list.sort(key=score, reverse=True): stable, so an element goes behind
\* every element already placed whose score is not smaller.
InsertByScore(sorted, c) ==
    LET n == Cardinality({i \in 1..Len(sorted) : sorted[i].score >= c.score})
    IN SubSeq(sorted, 1, n) \o <<c>> \o SubSeq(sorted, n + 1, Len(sorted))

RECURSIVE SortByScore(_, _)
SortByScore(sorted, cs) ==
    IF Len(cs) = 0 THEN sorted ELSE SortByScore(InsertByScore(sorted, Head(cs)), Tail(cs))

find_chat_endpoints(spec) == SortByScore(<<>>, Candidates(spec, spec.paths))

BearerHeader == <<JStr(S("header")), JStr(S("Authorization")), JStr(<<"Bearer ", "{credential}">>)>>

\* The loop of detect_auth over securitySchemes.items(), in document order.
RECURSIVE ScanSchemes(_)
ScanSchemes(items) ==
    IF Len(items) = 0 THEN BearerHeader
    ELSE LET scheme == Val(Head(items)[2])
             scheme_type == DictGet(scheme, S("type"), JStr(<<>>))
         IN IF scheme_type = JStr(S("http")) /\ DictGet(scheme, S("scheme"), JNull) = JStr(S("bearer"))
            THEN BearerHeader
            ELSE IF scheme_type = JStr(S("apiKey"))
            THEN <<DictGet(scheme, S("in"), JStr(S("header"))),
                   DictGet(scheme, S("name"), JStr(S("api-key"))),
                   JStr(S("{credential}"))>>
            ELSE ScanSchemes(Tail(items))

\* Variant: a later matching scheme replaces an earlier one.
RECURSIVE ScanSchemesLast(_)
ScanSchemesLast(items) ==
    IF Len(items) = 0 THEN BearerHeader
    ELSE LET scheme == Val(items[Len(items)][2])
             scheme_type == DictGet(scheme, S("type"), JStr(<<>>))
         IN IF scheme_type = JStr(S("http")) /\ DictGet(scheme, S("scheme"), JNull) = JStr(S("bearer"))
            THEN BearerHeader
            ELSE IF scheme_type = JStr(S("apiKey"))
            THEN <<DictGet(scheme, S("in"), JStr(S("header"))),
                   DictGet(scheme, S("name"), JStr(S("api-key"))),
                   JStr(S("{credential}"))>>
            ELSE ScanSchemesLast(SubSeq(items, 1, Len(items) - 1))

detect_auth_last_match(spec) == ScanSchemesLast(spec.securitySchemes)

detect_auth(spec) == ScanSchemes(spec.securitySchemes)

\* Variant: the template holds the field without the placeholder.
BlankTemplate(field) == JObj(Dict(<< <<field, JStr(<<>>)>> >>))

\* {field: '{prompt}'}
ScalarTemplate(field) == JObj(Dict(<< <<field, JStr(S("{prompt}"))>> >>))

\* {'messages': [{'role': 'user', 'content': '{prompt}'}]}
MessagesTemplate ==
    JObj(Dict(<< <<S("messages"), JArr(<<JObj(Dict(<<
        <<S("role"), JStr(S("user"))>>,
        <<S("content"), JStr(S("{prompt}"))>> >>))>>)>> >>))

\* "for field in [...]: if field in props: return ..."
RECURSIVE FirstPresent(_, _, _)
FirstPresent(fields, props, default) ==
    IF Len(fields) = 0 THEN default
    ELSE IF S(Head(fields)) \in DOMAIN props THEN S(Head(fields))
    ELSE FirstPresent(Tail(fields), props, default)

IsArraySchema(spec, schema_or_ref) ==
    DictGet(Val(get_schema(spec, schema_or_ref)), S("type"), JNull) = JStr(S("array"))

\* Variant: messages is taken without looking at its type.
_find_prompt_field_untyped(spec, schema) ==
    IF ~Truthy(schema) THEN <<S("prompt"), ScalarTemplate(S("prompt"))>>
    ELSE LET props == Val(GetDict(Val(schema), S("properties")))
             field == FirstPresent(<<"message", "prompt", "content", "input", "text", "query">>,
                                   props, S("prompt"))
         IN IF S("messages") \in DOMAIN props
            THEN <<S("messages"), MessagesTemplate>>
            ELSE <<field, ScalarTemplate(field)>>

_find_prompt_field(spec, schema) ==
    IF ~Truthy(schema) THEN <<S("prompt"), ScalarTemplate(S("prompt"))>>
    ELSE LET props == Val(GetDict(Val(schema), S("properties")))
             field == FirstPresent(<<"message", "prompt", "content", "input", "text", "query">>,
                                   props, S("prompt"))
         IN IF S("messages") \in DOMAIN props /\ IsArraySchema(spec, props[S("messages")])
            THEN <<S("messages"), MessagesTemplate>>
            ELSE <<field, ScalarTemplate(field)>>

\* Variant: text is looked for before content.
_find_response_field_text_first(spec, schema) ==
    IF ~Truthy(schema) THEN S("response")
    ELSE LET props == Val(GetDict(Val(schema), S("properties")))
         IN IF S("choices") \in DOMAIN props
            THEN <<"choices", ".", "0", ".", "message", ".", "content">>
            ELSE IF S("text") \in DOMAIN props
            THEN S("text")
            ELSE IF S("content") \in DOMAIN props
            THEN (IF IsArraySchema(spec, props[S("content")])
                  THEN <<"content", ".", "0", ".", "text">>
                  ELSE S("content"))
            ELSE IF S("generations") \in DOMAIN props
            THEN <<"generations", ".", "0", ".", "text">>
            ELSE IF S("message") \in DOMAIN props
            THEN <<"message", ".", "content">>
            ELSE FirstPresent(<<"response", "output", "completion", "result">>, props, S("response"))

_find_response_field(spec, schema) ==
    IF ~Truthy(schema) THEN S("response")
    ELSE LET props == Val(GetDict(Val(schema), S("properties")))
         IN IF S("choices") \in DOMAIN props
            THEN <<"choices", ".", "0", ".", "message", ".", "content">>
            ELSE IF S("content") \in DOMAIN props
            THEN (IF IsArraySchema(spec, props[S("content")])
                  THEN <<"content", ".", "0", ".", "text">>
                  ELSE S("content"))
            ELSE IF S("text") \in DOMAIN props
            THEN S("text")
            ELSE IF S("generations") \in DOMAIN props
            THEN <<"generations", ".", "0", ".", "text">>
            ELSE IF S("message") \in DOMAIN props
            THEN <<"message", ".", "content">>
            ELSE FirstPresent(<<"response", "output", "completion", "result">>, props, S("response"))

find_field_mapping(spec, endpoint) ==
    [prompt_field |-> _find_prompt_field(spec, endpoint.request_schema)[1],
     prompt_template |-> _find_prompt_field(spec, endpoint.request_schema)[2],
     response_field |-> _find_response_field(spec, endpoint.response_schema)]

\* get_base_url
get_base_url(spec) ==
    IF Truthy(spec.servers)
    THEN RStrip(Val(DictGet(Val(Val(spec.servers)[1]), S("url"), JStr(<<>>))), "/")
    ELSE <<>>

\* title.split(): the words between blanks.
Words(title) == SelectSeq(Split(title, " "), LAMBDA w : Len(w) > 0)

\* get_provider_name
get_provider_name(spec) ==
    LET title == Val(DictGet(Val(spec.info), S("title"), JStr(<<>>)))
        Known(name) == IsSubstring(Spell(name), Lower(title))
    IN IF Known("openai") THEN S("openai")
       ELSE IF Known("anthropic") THEN S("anthropic")
       ELSE IF Known("cohere") THEN S("cohere")
       ELSE IF Len(Words(title)) > 0 THEN Lower(Words(title)[1])
       ELSE S("unknown")

\* "for header in required_headers: if header['name'] and header['value']: ..."
RECURSIVE ExtraHeaders(_, _)
ExtraHeaders(extra_headers, required_headers) ==
    IF Len(required_headers) = 0 THEN extra_headers
    ELSE LET header == Val(Head(required_headers))
         IN ExtraHeaders(IF Truthy(header[S("name")]) /\ Truthy(header[S("value")])
                         THEN DictSet(extra_headers, Val(header[S("name")]), header[S("value")])
                         ELSE extra_headers,
                         Tail(required_headers))

\* The static_fields generate builds around the prompt template.
StaticFields(best_endpoint, prompt_template, model_hint) ==
    LET schema == best_endpoint.request_schema
        props == Val(GetDict(Val(schema), S("properties")))
        model_schema == Val(props[S("model")])
        with_model ==
            IF Truthy(model_hint) THEN DictSet(Val(prompt_template), S("model"), model_hint)
            ELSE IF Truthy(schema) /\ S("model") \in DOMAIN props
            THEN (IF S("example") \in DOMAIN model_schema
                  THEN DictSet(Val(prompt_template), S("model"), model_schema[S("example")])
                  ELSE IF S("default") \in DOMAIN model_schema
                  THEN DictSet(Val(prompt_template), S("model"), model_schema[S("default")])
                  ELSE Val(prompt_template))
            ELSE Val(prompt_template)
        required == IF Truthy(schema) THEN Val(DictGet(Val(schema), S("required"), JArr(<<>>))) ELSE <<>>
    IN IF \E i \in 1..Len(required) : required[i] = JStr(S("max_tokens"))
       THEN DictSet(with_model, S("max_tokens"), JNum(1024))
       ELSE with_model

\* ConfigGenerator.generate: the config dict, or ValueError.
generate(spec, model_hint) ==
    LET endpoints == find_chat_endpoints(spec)
        best_endpoint == endpoints[1]
        auth == detect_auth(spec)
        mapping == find_field_mapping(spec, best_endpoint)
    IN IF Len(endpoints) = 0 THEN Raised
       ELSE Returned(JObj(Dict(<<
            <<S("name"), DictGet(Val(spec.info), S("title"), JStr(<<"Unknown", " ", "API">>))>>,
            <<S("provider"), JStr(get_provider_name(spec))>>,
            <<S("version"), JStr(<<"1", ".", "0">>)>>,
            <<S("base_url"), JStr(get_base_url(spec))>>,
            <<S("auth"), JObj(Dict(<<
                <<S("type"), auth[1]>>,
                <<S("key_name"), auth[2]>>,
                <<S("value_template"), auth[3]>> >>))>>,
            <<S("request"), JObj(Dict(<<
                <<S("endpoint"), JStr(best_endpoint.path)>>,
                <<S("method"), JStr(S("POST"))>>,
                <<S("prompt_field"), JStr(mapping.prompt_field)>>,
                <<S("static_fields"),
                  JObj(StaticFields(best_endpoint, mapping.prompt_template, model_hint))>>,
                <<S("content_type"), JStr(ApplicationJson)>>,
                <<S("extra_headers"), JObj(ExtraHeaders(EmptyDict, best_endpoint.required_headers))>> >>))>>,
            <<S("response"), JObj(Dict(<<
                <<S("response_field"), JStr(mapping.response_field)>>,
                <<S("error_field"), JStr(<<"error", ".", "message">>)>> >>))>>,
            <<S("streaming"), JBool(FALSE)>>,
            <<S("timeout_seconds"), JNum(30)>> >>)))

(***************************************************************************)
(* find_chat_endpoints and generate over OpenAPI documents                 *)
(***************************************************************************)
\* The most paths a document holds.
MaxPaths == 3

\* An OpenAPI document as the parser keeps it; paths and securitySchemes are
\* item sequences in document order.
OpenAPIDocument(title, paths, securitySchemes, schemas) ==
    [info |-> JObj(Dict(<< <<S("title"), JStr(title)>> >>)),
     servers |-> JArr(<<JObj(Dict(<< <<S("url"), JStr(BaseUrl \o <<"/">>)>> >>))>>),
     paths |-> paths,
     securitySchemes |-> securitySchemes,
     schemas |-> schemas]

\* {"content": {"application/json": {"schema": schema}}}
JsonContent(schema) ==
    JObj(Dict(<< <<S("content"),
        JObj(Dict(<< <<ApplicationJson, JObj(Dict(<< <<S("schema"), schema>> >>))>> >>))>> >>))

Properties(pairs) == JObj(Dict(<< <<S("properties"), JObj(Dict(pairs))>> >>))

RefTo(name) ==
    JObj(Dict(<< <<S("$ref"), JStr(<<"#", "/", "components", "/", "schemas", "/", name>>)>> >>))

StringSchema == JObj(Dict(<< <<S("type"), JStr(S("string"))>> >>))
ArraySchema == JObj(Dict(<< <<S("type"), JStr(S("array"))>> >>))

EndpointSchemas ==
    Dict(<< <<S("ChatRequest"), Properties(<< <<S("Messages"), ArraySchema>>,
                                              <<S("model"), StringSchema>> >>)>> >>)

EndpointPaths == {
    <<"/", "v", "1", "/", "chat", "/", "completions">>,
    <<"/", "v", "1", "/", "models">>,
    <<"/", "v", "1", "/", "messages">>,
    <<"/", "v", "1", "/", "completions">>,
    <<"/", "v", "1", "/", "complete">> }

EndpointPathItems == {
    JObj(Dict(<< <<S("post"), JObj(EmptyDict)>> >>)),
    JObj(Dict(<< <<S("get"), JObj(EmptyDict)>> >>)),
    JObj(Dict(<<
        <<S("get"), JObj(EmptyDict)>>,
        <<S("post"), JObj(Dict(<<
            <<S("operationId"), JStr(<<"create", "Chat">>)>>,
            <<S("summary"), JStr(<<"Generate", " ", "text">>)>>,
            <<S("description"), JStr(<<"generate", " ", "a", " ", "reply">>)>>,
            <<S("requestBody"), JsonContent(RefTo("ChatRequest"))>> >>))>> >>)) }

\* Item sequences of at most n entries with distinct paths.
RECURSIVE PathItems(_)
PathItems(n) ==
    IF n = 0 THEN {<<>>}
    ELSE PathItems(n - 1) \cup
         { Append(items, <<path, path_item>>) :
             items \in {x \in PathItems(n - 1) : Len(x) = n - 1},
             path \in EndpointPaths, path_item \in EndpointPathItems }

DistinctPaths(items) == \A i, j \in 1..Len(items) : items[i][1] = items[j][1] => i = j

EndpointDocuments ==
    { OpenAPIDocument(<<"Acme", " ", "API">>, items, <<>>, EndpointSchemas) :
        items \in {x \in PathItems(MaxPaths) : DistinctPaths(x)} }

EndpointInit == Called([spec : EndpointDocuments, model_hint : {JNull}])

\* parser.find_chat_endpoints()
FindChatEndpoints == Returns(1, Returned(find_chat_endpoints(args.spec)))

\* ConfigGenerator(parser).generate()
Generate == Returns(2, generate(args.spec, args.model_hint))

EndpointNext ==
    \/ FindChatEndpoints
    \/ Generate

EndpointSpec == EndpointInit /\ [][EndpointNext]_vars

\* The place of a path in the document.
DocumentIndex(items, path) == CHOOSE i \in 1..Len(items) : items[i][1] = path

\* The paths of the document that have a POST operation with a score > 0.
PostPathsWithPositiveScore(spec) ==
    { spec.paths[i][1] : i \in { j \in 1..Len(spec.paths) :
        /\ S("post") \in DOMAIN Val(spec.paths[j][2])
        /\ OperationScore(spec, spec.paths[j][1], Val(spec.paths[j][2])[S("post")]) > 0 } }

\* C17: find_chat_endpoints returns exactly the paths that have a POST
\* operation and a score > 0, each once, by score descending and, for equal
\* scores, in document order; generate takes the first candidate's path as
\* the endpoint and raises when there is no candidate.
C17_EndpointDiscovery ==
    /\ Len(rets) >= 1 =>
        LET found == rets[1].value
        IN /\ rets[1].ok
           /\ {found[i].path : i \in 1..Len(found)} = PostPathsWithPositiveScore(args.spec)
           /\ Len(found) = Cardinality(PostPathsWithPositiveScore(args.spec))
           /\ \A i, j \in 1..Len(found) : i < j =>
                \/ found[i].score > found[j].score
                \/ /\ found[i].score = found[j].score
                   /\ DocumentIndex(args.spec.paths, found[i].path)
                        < DocumentIndex(args.spec.paths, found[j].path)
    /\ Len(rets) = 2 =>
        IF Len(rets[1].value) = 0 THEN ~rets[2].ok
        ELSE /\ rets[2].ok
             /\ Val(Val(rets[2].value)[S("request")])[S("endpoint")] = JStr(rets[1].value[1].path)

\* generate returned for a document of three paths, one of them with GET
\* only, the other two candidates of one score.
C17_Witness ==
    /\ Len(rets) = 2
    /\ rets[2].ok
    /\ Len(args.spec.paths) = MaxPaths
    /\ \E i \in 1..MaxPaths : DOMAIN Val(args.spec.paths[i][2]) = {S("get")}
    /\ Len(rets[1].value) = 2
    /\ rets[1].value[1].score = rets[1].value[2].score

(***************************************************************************)
(* _find_prompt_field and _find_response_field over schemas                *)
(***************************************************************************)
FieldSchemas ==
    Dict(<< <<S("Items"), ArraySchema>>, <<S("Text"), StringSchema>> >>)

FieldDocument == OpenAPIDocument(<<"Acme", " ", "API">>, <<>>, <<>>, FieldSchemas)

\* What a schema can say of one property: nothing, an array, a string, a
\* reference to an array, a reference to nothing.
TypedProperty(name) ==
    { <<>> } \cup
    { << <<S(name), schema>> >> :
        schema \in {ArraySchema, StringSchema, RefTo("Items"), RefTo("Missing")} }

\* Every choice of present names, each a string property.
RECURSIVE StringProperties(_)
StringProperties(names) ==
    IF Len(names) = 0 THEN { <<>> }
    ELSE LET rest == StringProperties(Tail(names))
         IN rest \cup { << <<S(Head(names)), StringSchema>> >> \o r : r \in rest }

\* A missing schema, an empty schema, and schemas with properties.
SchemasOver(typed, names) ==
    {JNull, JObj(EmptyDict)} \cup
    { Properties(t \o r) : t \in TypedProperty(typed), r \in StringProperties(names) }

RequestSchemas ==
    SchemasOver("messages", <<"message", "prompt", "content", "input", "text", "query", "model">>)

PromptFieldInit == Called([spec : {FieldDocument}, schema : RequestSchemas])

\* parser._find_prompt_field(schema)
FindPromptField == Returns(1, Returned(_find_prompt_field(args.spec, args.schema)))

PromptFieldSpec == PromptFieldInit /\ [][FindPromptField]_vars

\* "name in props" for the schema in hand.
HasProperty(name) ==
    /\ Truthy(args.schema)
    /\ S(name) \in DOMAIN Val(GetDict(Val(args.schema), S("properties")))

\* The property is typed as an array, directly or through its $ref.
ArrayProperty(name) ==
    /\ HasProperty(name)
    /\ IsArraySchema(args.spec, Val(Val(args.schema)[S("properties")])[S(name)])

\* No name of the sequence before place i is a property.
NoneBefore(names, i) == \A j \in 1..(i - 1) : ~HasProperty(names[j])

ScalarPromptFields == <<"message", "prompt", "content", "input", "text", "query">>

\* C18: the prompt field is "messages", with the one-message template, when
\* messages is a property typed as an array; else the first present of
\* message, prompt, content, input, text, query, with the template
\* {field: "{prompt}"}; else, a missing or empty schema included, "prompt".
C18_RequestFieldInference ==
    Len(rets) = 1 =>
        LET inferred == rets[1].value
        IN /\ rets[1].ok
           /\ ArrayProperty("messages") => inferred = <<S("messages"), MessagesTemplate>>
           /\ \A i \in 1..Len(ScalarPromptFields) :
                (~ArrayProperty("messages") /\ HasProperty(ScalarPromptFields[i])
                 /\ NoneBefore(ScalarPromptFields, i))
                => inferred = <<S(ScalarPromptFields[i]), ScalarTemplate(S(ScalarPromptFields[i]))>>
           /\ (~ArrayProperty("messages") /\ NoneBefore(ScalarPromptFields, Len(ScalarPromptFields) + 1))
                => inferred = <<S("prompt"), ScalarTemplate(S("prompt"))>>

\* messages is a property but a string, message is absent and both content
\* and query are present: content is inferred.
C18_Witness ==
    /\ Len(rets) = 1
    /\ HasProperty("messages") /\ ~ArrayProperty("messages")
    /\ ~HasProperty("message") /\ ~HasProperty("prompt")
    /\ HasProperty("content") /\ HasProperty("query")
    /\ rets[1].value[1] = S("content")

ResponseSchemas ==
    SchemasOver("content", <<"choices", "text", "generations", "message",
                             "response", "output", "completion", "result">>)

ResponseFieldInit == Called([spec : {FieldDocument}, schema : ResponseSchemas])

\* parser._find_response_field(schema)
FindResponseField == Returns(1, Returned(_find_response_field(args.spec, args.schema)))

ResponseFieldSpec == ResponseFieldInit /\ [][FindResponseField]_vars

\* The names _find_response_field looks for, in its order, and the path each
\* one gives; content gives "content.0.text" when it is typed as an array.
ResponseFields == <<"choices", "content", "text", "generations", "message",
                    "response", "output", "completion", "result">>

ResponsePath(name) ==
    CASE name = "choices" -> <<"choices", ".", "0", ".", "message", ".", "content">>
      [] name = "content" -> IF ArrayProperty("content") THEN <<"content", ".", "0", ".", "text">>
                             ELSE S("content")
      [] name = "generations" -> <<"generations", ".", "0", ".", "text">>
      [] name = "message" -> <<"message", ".", "content">>
      [] OTHER -> S(name)

\* C19: the response field is the path of the first present of choices,
\* content, text, generations, message, response, output, completion,
\* result; else, a missing or empty schema included, "response".
C19_ResponseFieldInference ==
    Len(rets) = 1 =>
        /\ rets[1].ok
        /\ \A i \in 1..Len(ResponseFields) :
             (HasProperty(ResponseFields[i]) /\ NoneBefore(ResponseFields, i))
             => rets[1].value = ResponsePath(ResponseFields[i])
        /\ NoneBefore(ResponseFields, Len(ResponseFields) + 1) => rets[1].value = S("response")

\* content is a string property next to text, generations and message, and
\* choices is absent: the bare field content is inferred.
C19_Witness ==
    /\ Len(rets) = 1
    /\ ~HasProperty("choices")
    /\ HasProperty("content") /\ ~ArrayProperty("content")
    /\ HasProperty("text") /\ HasProperty("generations") /\ HasProperty("message")
    /\ rets[1].value = S("content")

(***************************************************************************)
(* detect_auth over security schemes                                       *)
(***************************************************************************)
\* The most security schemes a document declares.
MaxSchemes == 3

SecurityScheme(pairs) == JObj(Dict(pairs))

\* http with bearer, basic and "Bearer"; apiKey in a header, in the query,
\* in a cookie and without location and name; oauth2; a scheme without type.
SecuritySchemes == {
    SecurityScheme(<< <<S("type"), JStr(S("http"))>>, <<S("scheme"), JStr(S("bearer"))>> >>),
    SecurityScheme(<< <<S("type"), JStr(S("http"))>>, <<S("scheme"), JStr(S("basic"))>> >>),
    SecurityScheme(<< <<S("type"), JStr(S("http"))>>, <<S("scheme"), JStr(S("Bearer"))>> >>),
    SecurityScheme(<< <<S("type"), JStr(S("apiKey"))>>, <<S("in"), JStr(S("header"))>>,
                      <<S("name"), JStr(S("x-api-key"))>> >>),
    SecurityScheme(<< <<S("type"), JStr(S("apiKey"))>>, <<S("in"), JStr(S("query"))>>,
                      <<S("name"), JStr(S("key"))>> >>),
    SecurityScheme(<< <<S("type"), JStr(S("apiKey"))>>, <<S("in"), JStr(S("cookie"))>>,
                      <<S("name"), JStr(S("session"))>> >>),
    SecurityScheme(<< <<S("type"), JStr(S("apiKey"))>> >>),
    SecurityScheme(<< <<S("type"), JStr(S("oauth2"))>> >>),
    SecurityScheme(<< <<S("description"), JStr(S("none"))>> >>) }

\* The names the schemes are declared under, in document order.
SchemeNames == <<"first", "second", "third", "fourth">>

\* Item sequences of at most n schemes.
RECURSIVE SchemeItems(_)
SchemeItems(n) ==
    IF n = 0 THEN {<<>>}
    ELSE SchemeItems(n - 1) \cup
         { Append(items, <<S(SchemeNames[n]), scheme>>) :
             items \in {x \in SchemeItems(n - 1) : Len(x) = n - 1},
             scheme \in SecuritySchemes }

AuthDocuments ==
    { OpenAPIDocument(<<"Acme", " ", "API">>, <<>>, items, EmptyDict) : items \in SchemeItems(MaxSchemes) }

AuthInit == Called([spec : AuthDocuments])

\* parser.detect_auth()
DetectAuth == Returns(1, Returned(detect_auth(args.spec)))

AuthSpec == AuthInit /\ [][DetectAuth]_vars

\* The scheme is http with scheme bearer.
IsHttpBearer(scheme) ==
    /\ S("type") \in DOMAIN Val(scheme) /\ Val(scheme)[S("type")] = JStr(S("http"))
    /\ S("scheme") \in DOMAIN Val(scheme) /\ Val(scheme)[S("scheme")] = JStr(S("bearer"))

IsApiKey(scheme) ==
    S("type") \in DOMAIN Val(scheme) /\ Val(scheme)[S("type")] = JStr(S("apiKey"))

Matches(scheme) == IsHttpBearer(scheme) \/ IsApiKey(scheme)

\* C20: detect_auth returns the result of the first declared scheme that is
\* http+bearer (header, Authorization, "Bearer {credential}") or apiKey (its
\* declared location and name, "{credential}"), whatever follows it; with no
\* such scheme it returns (header, Authorization, "Bearer {credential}").
C20_AuthInference ==
    Len(rets) = 1 =>
        LET declared == args.spec.securitySchemes
            detected == rets[1].value
        IN /\ rets[1].ok
           /\ \A i \in 1..Len(declared) :
                (Matches(declared[i][2]) /\ \A j \in 1..(i - 1) : ~Matches(declared[j][2]))
                => /\ IsHttpBearer(declared[i][2]) => detected = BearerHeader
                   /\ IsApiKey(declared[i][2]) =>
                        /\ detected[3] = JStr(S("{credential}"))
                        /\ S("in") \in DOMAIN Val(declared[i][2])
                            => detected[1] = Val(declared[i][2])[S("in")]
                        /\ S("name") \in DOMAIN Val(declared[i][2])
                            => detected[2] = Val(declared[i][2])[S("name")]
           /\ (\A i \in 1..Len(declared) : ~Matches(declared[i][2])) => detected = BearerHeader

\* An oauth2 scheme, then an apiKey in the query, then http bearer: the
\* apiKey's location and name are returned.
C20_Witness ==
    /\ Len(rets) = 1
    /\ Len(args.spec.securitySchemes) = MaxSchemes
    /\ ~Matches(args.spec.securitySchemes[1][2])
    /\ IsApiKey(args.spec.securitySchemes[2][2])
    /\ IsHttpBearer(args.spec.securitySchemes[3][2])
    /\ rets[1].value = <<JStr(S("query")), JStr(S("key")), JStr(S("{credential}"))>>

(***************************************************************************)
(* generate over the parameters of the winning operation                   *)
(***************************************************************************)
\* The most parameters the operation declares.
MaxParameters == 2

Parameter(name, location, required, schema) ==
    JObj(Dict(<< <<S("name"), JStr(S(name))>>, <<S("in"), JStr(S(location))>> >>
              \o required \o schema))

Required(b) == << <<S("required"), JBool(b)>> >>

ExampleSchema(example) ==
    << <<S("schema"), JObj(Dict(<< <<S("type"), JStr(S("string"))>>, <<S("example"), example>> >>))>> >>

NoExampleSchema == << <<S("schema"), StringSchema>> >>

\* Parameters under their own names: required headers with an example, with
\* a schema without example and without schema; a header that is not
\* required; a header that does not say; a required query parameter.
Parameters == {
    Parameter("x-version", "header", Required(TRUE), ExampleSchema(JStr(S("beta")))),
    Parameter("x-client", "header", Required(TRUE), NoExampleSchema),
    Parameter("x-trace", "header", Required(TRUE), <<>>),
    Parameter("x-optional", "header", Required(FALSE), ExampleSchema(JStr(S("o")))),
    Parameter("x-unsaid", "header", <<>>, ExampleSchema(JStr(S("u")))),
    Parameter("api-version", "query", Required(TRUE), ExampleSchema(JStr(S("q")))) }

\* Parameter lists of at most n entries with distinct names.
RECURSIVE ParameterLists(_)
ParameterLists(n) ==
    IF n = 0 THEN {<<>>}
    ELSE ParameterLists(n - 1) \cup
         { Append(params, param) :
             params \in {x \in ParameterLists(n - 1) : Len(x) = n - 1},
             param \in Parameters }

DistinctNames(params) ==
    \A i, j \in 1..Len(params) : Val(params[i])[S("name")] = Val(params[j])[S("name")] => i = j

ChatPath == <<"/", "v", "1", "/", "chat", "/", "completions">>

\* A document whose one path has the POST operation given.
OneOperation(operation, securitySchemes, schemas) ==
    OpenAPIDocument(<<"Acme", " ", "API">>,
                    << <<ChatPath, JObj(Dict(<< <<S("post"), operation>> >>))>> >>,
                    securitySchemes, schemas)

ModelHints == {JNull, JStr(S("m"))}

HeaderDocuments ==
    { OneOperation(JObj(Dict(<< <<S("parameters"), JArr(params)>> >>)), <<>>, EmptyDict) :
        params \in {x \in ParameterLists(MaxParameters) : DistinctNames(x)} }

HeaderInit == Called([spec : HeaderDocuments, model_hint : ModelHints])

\* ConfigGenerator(parser).generate(model_hint)
GenerateConfig == Returns(1, generate(args.spec, args.model_hint))

HeaderSpec == HeaderInit /\ [][GenerateConfig]_vars

\* The parameters of the operation generate chose.
WinningParameters ==
    Val(DictGet(Val(Val(args.spec.paths[1][2])[S("post")]), S("parameters"), JArr(<<>>)))

IsRequiredHeader(param) ==
    /\ S("in") \in DOMAIN Val(param) /\ Val(param)[S("in")] = JStr(S("header"))
    /\ S("required") \in DOMAIN Val(param) /\ Val(param)[S("required")] = JBool(TRUE)

\* The example of the parameter's schema, or the empty string.
ExampleOf(param) ==
    IF S("schema") \in DOMAIN Val(param) /\ S("example") \in DOMAIN Val(Val(param)[S("schema")])
    THEN Val(Val(param)[S("schema")])[S("example")]
    ELSE JStr(<<>>)

GeneratedExtraHeaders == Val(Val(Val(rets[1].value)[S("request")])[S("extra_headers")])

\* C21: every parameter of the winning operation declared in: header with
\* required: true is a key of the generated extra_headers, with its schema
\* example as value, or the empty string without example; no other
\* parameter is a key.
C21_RequiredHeaders ==
    (Len(rets) = 1 /\ rets[1].ok) =>
        /\ \A i \in 1..Len(WinningParameters) :
             IsRequiredHeader(WinningParameters[i]) =>
                /\ Val(Val(WinningParameters[i])[S("name")]) \in DOMAIN GeneratedExtraHeaders
                /\ GeneratedExtraHeaders[Val(Val(WinningParameters[i])[S("name")])]
                     = ExampleOf(WinningParameters[i])
        /\ \A k \in DOMAIN GeneratedExtraHeaders :
             \E i \in 1..Len(WinningParameters) :
                /\ IsRequiredHeader(WinningParameters[i])
                /\ Val(Val(WinningParameters[i])[S("name")]) = k

\* The same, for the required headers whose schema has a non-empty example.
RequiredHeadersWithExample ==
    (Len(rets) = 1 /\ rets[1].ok) =>
        /\ \A i \in 1..Len(WinningParameters) :
             (IsRequiredHeader(WinningParameters[i]) /\ Truthy(ExampleOf(WinningParameters[i]))) =>
                /\ Val(Val(WinningParameters[i])[S("name")]) \in DOMAIN GeneratedExtraHeaders
                /\ GeneratedExtraHeaders[Val(Val(WinningParameters[i])[S("name")])]
                     = ExampleOf(WinningParameters[i])
        /\ \A k \in DOMAIN GeneratedExtraHeaders :
             \E i \in 1..Len(WinningParameters) :
                /\ IsRequiredHeader(WinningParameters[i])
                /\ Val(Val(WinningParameters[i])[S("name")]) = k

(***************************************************************************)
(* Retry accounting of send_prompt                                         *)
(***************************************************************************)
\* C22: whenever send_prompt returns, whatever the outcome, retries is the
\* number of sends minus one and the number of sleeps; a sleep is taken only
\* after an outcome that _should_retry accepted and leads to the next send,
\* so none follows the final send.
C22_RetryAccounting ==
    /\ [](Returned_ =>
            /\ result.retries = sends - 1
            /\ result.retries = Len(slept))
    /\ [][slept' # slept =>
            /\ pc = "sleep" /\ pc' = "send"
            /\ Len(slept') = Len(slept) + 1
            /\ Len(slept') = sends
            /\ outcome.kind # "none"
            /\ _should_retry(retry_config, error_type, attempt)
            /\ result' = NoResponse]_vars
    /\ [][pc = "done" => (pc' = "done" /\ slept' = slept /\ sent' = sent)]_vars

\* A timeout ended the call after at least one retry.
C22_Witness ==
    /\ Returned_
    /\ result.error_type = "TIMEOUT"
    /\ result.retries >= 1
    /\ Len(slept) = result.retries
    /\ sends = result.retries + 1

(***************************************************************************)
(* The score of one POST operation                                         *)
(***************************************************************************)
OptionalField(key, values) == { <<>> } \cup { << <<S(key), v>> >> : v \in values }

ScoredOperations ==
    { JObj(Dict(operationId \o summary \o description \o requestBody)) :
        operationId \in OptionalField("operationId",
            {JStr(<<"create", "Chat">>), JStr(<<"list", "Models">>), JStr(<<"delete", "Chat">>)}),
        summary \in OptionalField("summary",
            {JStr(<<"Generate", " ", "text">>), JStr(<<"list", " ", "models">>)}),
        description \in OptionalField("description", {JStr(<<"generate", " ", "a", " ", "reply">>)}),
        requestBody \in OptionalField("requestBody",
            {JsonContent(RefTo("ChatRequest")),
             JsonContent(Properties(<< <<S("prompt"), StringSchema>>, <<S("input"), StringSchema>> >>))}) }

ScoredPaths == {
    <<"/", "v", "1", "/", "chat">>,
    <<"/", "v", "1", "/", "models">>,
    <<"/", "v", "1", "/", "complete">> }

ScoreDocuments ==
    { OpenAPIDocument(<<"Acme", " ", "API">>,
                      << <<path, JObj(Dict(<< <<S("post"), operation>> >>))>> >>,
                      <<>>, EndpointSchemas) :
        path \in ScoredPaths, operation \in ScoredOperations }

ScoreInit == Called([spec : ScoreDocuments])

ScoreSpec == ScoreInit /\ [][FindChatEndpoints]_vars

\* The positive and the negative keyword weights of the keywords that occur
\* in text, times w.
KeywordSums(text, w) ==
    KeywordScore(PATH_KEYWORDS, {text}, w) + KeywordScore(NEGATIVE_KEYWORDS, {text}, w)

\* The names of the top-level properties of the operation's request body.
RequestFields(spec, operation) ==
    IF Truthy(_get_request_schema(spec, operation))
    THEN DOMAIN Val(GetDict(Val(_get_request_schema(spec, operation)), S("properties")))
    ELSE {}

\* The score as stated, in tenths: the keyword sums of the path, half those
\* of the operation id, three tenths of those of the summary and description
\* text, half the request-field weights.
StatedScore(spec, path, operation) ==
    KeywordSums(Lower(path), WholeWeight)
    + KeywordSums(Lower(GetText(operation, "operationId")), HalfWeight)
    + KeywordSums(Lower(GetText(operation, "summary") \o <<" ">> \o GetText(operation, "description")),
                  ThreeTenthsWeight)
    + FieldScore(RequestFields(spec, operation))

ScoredOperation == Val(args.spec.paths[1][2])[S("post")]

\* C23: the score of a POST operation is the stated sum: a candidate carries
\* it, and the operation is a candidate exactly when it is positive.
C23_ScoreFormula ==
    Len(rets) = 1 =>
        LET stated == StatedScore(args.spec, args.spec.paths[1][1], ScoredOperation)
        IN /\ Len(rets[1].value) = 1 <=> stated > 0
           /\ Len(rets[1].value) = 1 => rets[1].value[1].score = stated

\* No negative keyword occurs in the operation id, the summary or the
\* description.
NoNegativeKeywordInTexts ==
    /\ KeywordScore(NEGATIVE_KEYWORDS, {Lower(GetText(ScoredOperation, "operationId"))}, WholeWeight) = 0
    /\ KeywordScore(NEGATIVE_KEYWORDS, {Lower(GetText(ScoredOperation, "summary")),
                                        Lower(GetText(ScoredOperation, "description"))}, WholeWeight) = 0

\* The stated sum is the score where only the path holds negative keywords.
ScoreFormulaWithoutNegativeTexts ==
    (Len(rets) = 1 /\ NoNegativeKeywordInTexts) =>
        LET stated == StatedScore(args.spec, args.spec.paths[1][1], ScoredOperation)
        IN /\ Len(rets[1].value) = 1 <=> stated > 0
           /\ Len(rets[1].value) = 1 => rets[1].value[1].score = stated

(***************************************************************************)
(* _get_nested_value called on its own                                     *)
(***************************************************************************)
NestedRoots ==
    { JObj(EmptyDict),
      JNull,
      JStr(S("x")),
      JNum(7),
      JArr(<<JStr(S("x")), JObj(Dict(<< <<S("b"), JNum(1)>> >>))>>),
      JObj(Dict(<< <<S("a"), JStr(S("x"))>> >>)),
      JObj(Dict(<< <<S("a"), JNull>> >>)),
      JObj(Dict(<< <<S("a"), JObj(Dict(<< <<S("b"), JObj(Dict(<< <<S("c"), JBool(FALSE)>> >>))>> >>))>> >>)),
      JObj(Dict(<< <<S("a"), JArr(<<JObj(Dict(<< <<S("b"), JStr(S("deep"))>> >>)),
                                    JArr(<<JNum(0)>>)>>)>> >>)) }

NestedPaths ==
    { <<>>,
      <<"a">>,
      <<"0">>,
      <<"1", ".", "b">>,
      <<"a", ".", "b">>,
      <<"a", ".", "b", ".", "c">>,
      <<"a", ".", "0">>,
      <<"a", ".", "0", ".", "b">>,
      <<"a", ".", "1", ".", "0">>,
      <<"a", ".", "2">>,
      <<"a", ".", "1", "0">>,
      <<"x", ".", "<U+00B2>">>,
      <<"a", ".", "<U+00B2>">>,
      <<"<U+00B2>">> }

NestedInit == Called([root : NestedRoots, path : NestedPaths])

\* self._get_nested_value(root, path)
GetNestedValue == Returns(1, _get_nested_value_call(args.root, args.path))

NestedSpec == NestedInit /\ [][GetNestedValue]_vars

\* What the path addresses as stated: a numeric segment is an index into an
\* array, any other segment a key of an object; not found is None.
RECURSIVE Addressed(_, _)
Addressed(current, parts) ==
    IF Len(parts) = 0 THEN current
    ELSE IF IsDigit(Head(parts))
    THEN IF Tag(current) = "arr" /\ IsDecimal(Head(parts)) /\ ToInt(Head(parts)) < Len(Val(current))
         THEN Addressed(Val(current)[ToInt(Head(parts)) + 1], Tail(parts))
         ELSE JNull
    ELSE IF Tag(current) = "obj" /\ Head(parts) \in DOMAIN Val(current)
         THEN Addressed(Val(current)[Head(parts)], Tail(parts))
         ELSE JNull

\* C24: for every root and every dot-path, _get_nested_value returns, and
\* returns what the path addresses, None when it addresses nothing.
C24_GetNeverFaults ==
    Len(rets) = 1 =>
        /\ rets[1].ok
        /\ rets[1].value = Addressed(args.root, Split(args.path, "."))

\* The same for the paths whose numeric segments are decimal.
GetNeverFaultsOnDecimalPaths ==
    (Len(rets) = 1 /\ \A i \in 1..Len(args.path) : args.path[i] \notin NonDecimalDigits) =>
        /\ rets[1].ok
        /\ rets[1].value = Addressed(args.root, Split(args.path, "."))

(***************************************************************************)
(* The frame of _set_nested_value                                          *)
(***************************************************************************)
\* Some value inside x is an array.
RECURSIVE HoldsArray(_)
HoldsArray(x) ==
    CASE Tag(x) = "arr" -> TRUE
      [] Tag(x) = "obj" -> \E k \in DOMAIN Val(x) : HoldsArray(Val(x)[k])
      [] OTHER -> FALSE

\* Every non-terminal key segment of parts leads to an object in x.
RECURSIVE ObjectsAlong(_, _)
ObjectsAlong(x, parts) ==
    IF Len(parts) <= 1 THEN TRUE
    ELSE IF IsDigit(Head(parts)) THEN ObjectsAlong(x, Tail(parts))
    ELSE /\ Tag(x) = "obj"
         /\ Head(parts) \in DOMAIN Val(x)
         /\ Tag(Val(x)[Head(parts)]) = "obj"
         /\ ObjectsAlong(Val(x)[Head(parts)], Tail(parts))

\* C25: _set_nested_value returns also when an intermediate value is a
\* string or an array; it leaves the root unchanged when the terminal segment
\* is numeric; otherwise the root it leaves has an object at every
\* non-terminal segment, and no array that the root or the value did not
\* hold.
C25_SetFrame ==
    Len(rets) >= 1 =>
        /\ rets[1].ok
        /\ IsDigit(TerminalSegment(args.path)) => rets[1].value = args.root
        /\ ~IsDigit(TerminalSegment(args.path)) =>
             /\ ObjectsAlong(rets[1].value, Split(args.path, "."))
             /\ HoldsArray(rets[1].value) => (HoldsArray(args.root) \/ HoldsArray(args.value))

\* The same for the calls that return and whose terminal segment is a key.
SetFrameOfKeyWrites ==
    (Len(rets) >= 1 /\ rets[1].ok /\ ~IsDigit(TerminalSegment(args.path))) =>
        /\ ObjectsAlong(rets[1].value, Split(args.path, "."))
        /\ HoldsArray(rets[1].value) => (HoldsArray(args.root) \/ HoldsArray(args.value))

(***************************************************************************)
(* _build_headers called on its own                                        *)
(***************************************************************************)
AuthWith(type, key_name, value_template) ==
    JObj(Dict(<<
        <<S("type"), JStr(S(type))>>,
        <<S("key_name"), JStr(S(key_name))>>,
        <<S("value_template"), JStr(value_template)>> >>))

ValueTemplates ==
    { <<"Bearer ", "{credential}">>, <<"{credential}">>, <<"static">>,
      <<"{credential}", ":", "{credential}">> }

HeaderAuths ==
    {JNull} \cup
    { AuthWith(type, key_name, value_template) :
        type \in {"header", "body", "query"},
        key_name \in {"Authorization", "x-api-key", "Content-Type"},
        value_template \in ValueTemplates }

ExtraHeaderSets ==
    { JObj(EmptyDict),
      JObj(Dict(<< <<S("x-version"), JStr(S("v"))>> >>)),
      JObj(Dict(<< <<S("Authorization"), JStr(S("old"))>>,
                   <<S("Content-Type"), JStr(<<"text", "/", "plain">>)>> >>)) }

RequestWithHeaders(extra_headers) ==
    JObj(Dict(<<
        <<S("endpoint"), JStr(<<"/", "generate">>)>>,
        <<S("prompt_field"), Path(<<"prompt">>)>>,
        <<S("extra_headers"), extra_headers>> >>))

HeaderConfigFiles ==
    { ConfigFile("headers", BaseUrl, auth, RequestWithHeaders(extra_headers), ChoicesResponse) :
        auth \in HeaderAuths, extra_headers \in ExtraHeaderSets }

ComposeInit ==
    Called([config : {from_dict(data) : data \in HeaderConfigFiles}, credential : Credentials])

\* self._build_headers()
ComposeHeaders == Returns(1, _build_headers(args.config, args.credential))

ComposeSpec == ComposeInit /\ [][ComposeHeaders]_vars

\* value_template with {credential} replaced by the credential.
Substituted(c, cred) == JStr(Replace(Val(Val(c.auth).value_template), "{credential}", cred))

\* C26: _build_headers returns Content-Type: content_type, overridden by
\* extra_headers, overridden by key_name: substituted credential when
\* auth.type is "header", and nothing else; without header auth no auth entry
\* is added.
C26_HeaderComposition ==
    Len(rets) = 1 =>
        LET request == Val(args.config.request)
            extra == Val(request.extra_headers)
            header_auth == IsAuthType(args.config, "header")
            key_name == Val(Val(args.config.auth).key_name)
            built == rets[1].value
        IN /\ rets[1].ok
           /\ DOMAIN built = {<<"Content-Type">>} \cup DOMAIN extra
                               \cup (IF header_auth THEN {key_name} ELSE {})
           /\ \A k \in DOMAIN built :
                built[k] = IF header_auth /\ k = key_name THEN Substituted(args.config, args.credential)
                           ELSE IF k \in DOMAIN extra THEN extra[k]
                           ELSE request.content_type

\* extra_headers holds Authorization and Content-Type, and the header auth
\* is written at Authorization: the built headers carry the substituted
\* credential there and the extra Content-Type.
C26_Witness ==
    /\ Len(rets) = 1
    /\ IsAuthType(args.config, "header")
    /\ Val(args.config.auth).key_name = JStr(S("Authorization"))
    /\ Val(args.config.auth).value_template = JStr(<<"Bearer ", "{credential}">>)
    /\ S("Authorization") \in DOMAIN Val(Val(args.config.request).extra_headers)
    /\ rets[1].value[S("Authorization")] = JStr(<<"Bearer ">> \o args.credential)
    /\ rets[1].value[S("Content-Type")] = JStr(<<"text", "/", "plain">>)

(***************************************************************************)
(* send_prompt under each auth location                                    *)
(***************************************************************************)
LocationConfigFiles ==
    { ConfigFile("location", BaseUrl, AuthWith(type, "api_key", value_template), request, ChoicesResponse) :
        type \in {"header", "query", "body"},
        value_template \in {<<"Bearer ", "{credential}">>, <<"{credential}">>},
        request \in {ChatRequest, FlatRequest} }

LocationInit ==
    /\ \E data \in LocationConfigFiles : config = from_dict(data)
    /\ credential \in Credentials
    /\ retry_config \in RetryConfigs
    /\ prompt \in Prompts
    /\ pc = "build"
    /\ url = JNull
    /\ headers = EmptyDict
    /\ body = JNull
    /\ attempt = 0
    /\ error_type = "unset"
    /\ delay = 0
    /\ outcome = NoOutcome
    /\ builds = 0
    /\ sent = <<>>
    /\ slept = <<>>
    /\ retried = <<>>
    /\ result = NoResponse
    /\ args = <<>>
    /\ rets = <<>>
    /\ heap = <<>>
    /\ rt = <<>>

LocationSpec == LocationInit /\ [][Next]_vars

\* The url carries key=value in its query string.
QueryCarries(u, key, value) ==
    LET parameter == key \o <<"=">> \o value
    IN \E i \in 2..Len(u) :
        /\ u[i - 1] \in {"?", "&"}
        /\ i + Len(parameter) - 1 <= Len(u)
        /\ SubSeq(u, i, i + Len(parameter) - 1) = parameter

\* The request carries the substituted credential under key_name at the
\* location the config names.
CarriesCredential(request) ==
    LET key_name == Val(Val(config.auth).key_name)
        value == Val(Substituted(config, credential))
    IN CASE IsAuthType(config, "header") ->
              key_name \in DOMAIN request.headers /\ request.headers[key_name] = JStr(value)
         [] IsAuthType(config, "body") -> _get_nested_value(request.json, key_name) = JStr(value)
         [] IsAuthType(config, "query") -> QueryCarries(Val(request.url), key_name, value)
         [] OTHER -> TRUE

\* C27: for auth.type header, query and body alike, every request
\* send_prompt sends carries the substituted credential under key_name in
\* the headers, the query string or the body respectively.
C27_CredentialReachesRequest ==
    \A i \in 1..Len(sent) : CarriesCredential(sent[i])

\* The same for auth.type header and body.
CredentialReachesHeadersAndBody ==
    ~IsAuthType(config, "query") => \A i \in 1..Len(sent) : CarriesCredential(sent[i])

(***************************************************************************)
(* The auth generate writes                                                *)
(***************************************************************************)
GeneratedAuthDocuments ==
    { OneOperation(JObj(EmptyDict), items, EmptyDict) : items \in SchemeItems(MaxSchemes) }

GeneratedAuthInit == Called([spec : GeneratedAuthDocuments, model_hint : {JNull}])

GeneratedAuthNext ==
    \/ DetectAuth
    \/ Generate

GeneratedAuthSpec == GeneratedAuthInit /\ [][GeneratedAuthNext]_vars

\* AuthConfig.type: "header", "query", "body".
AuthTypes == {JStr(S("header")), JStr(S("query")), JStr(S("body"))}

\* C28: the auth type detect_auth returns is header, query or body, and
\* generate writes that type into the config.
C28_GeneratedAuthValid ==
    /\ Len(rets) >= 1 => rets[1].value[1] \in AuthTypes
    /\ Len(rets) = 2 =>
        /\ rets[2].ok
        /\ Val(Val(rets[2].value)[S("auth")])[S("type")] = rets[1].value[1]
        /\ Val(Val(rets[2].value)[S("auth")])[S("type")] \in AuthTypes

\* The same for documents that declare no apiKey outside header and query.
GeneratedAuthValidWithoutCookie ==
    (\A i \in 1..Len(args.spec.securitySchemes) :
        DictGet(Val(args.spec.securitySchemes[i][2]), S("in"), JStr(S("header")))
            \in {JStr(S("header")), JStr(S("query"))}) =>
    /\ Len(rets) >= 1 => rets[1].value[1] \in AuthTypes
    /\ Len(rets) = 2 =>
        /\ rets[2].ok
        /\ Val(Val(rets[2].value)[S("auth")])[S("type")] = rets[1].value[1]

(***************************************************************************)
(* generate, then _build_body on the generated config                      *)
(***************************************************************************)
ModelProperties ==
    { <<>>,
      << <<S("model"), StringSchema>> >>,
      << <<S("model"), JObj(Dict(<< <<S("type"), JStr(S("string"))>>, <<S("example"), JStr(S("gpt"))>> >>))>> >>,
      << <<S("model"), JObj(Dict(<< <<S("type"), JStr(S("string"))>>, <<S("default"), JStr(S("base"))>> >>))>> >> }

RequiredLists == { <<>>, << <<S("required"), JArr(<<JStr(S("max_tokens"))>>)>> >> }

\* No request body, and request bodies whose schema has properties.
GeneratedRequestBodies ==
    { <<>> } \cup
    { << <<S("requestBody"),
           JsonContent(JObj(Dict(<< <<S("properties"), JObj(Dict(typed \o named \o model))>> >> \o required)))>> >> :
        typed \in TypedProperty("messages"),
        named \in StringProperties(<<"message", "prompt", "input">>),
        model \in ModelProperties,
        required \in RequiredLists }

ChoicesResponses ==
    << <<S("responses"), JObj(Dict(<< <<Status200,
          JsonContent(Properties(<< <<S("choices"), ArraySchema>> >>))>> >>))>> >>

ApiKeySchemes ==
    { <<>>,
      << <<S("key"), SecurityScheme(<< <<S("type"), JStr(S("apiKey"))>>, <<S("in"), JStr(S("query"))>>,
                                       <<S("name"), JStr(S("key"))>> >>)>> >> }

GeneratorDocuments ==
    { OneOperation(JObj(Dict(requestBody \o ChoicesResponses)), schemes, FieldSchemas) :
        requestBody \in GeneratedRequestBodies, schemes \in ApiKeySchemes }
    \cup { OpenAPIDocument(<<"Acme", " ", "API">>, <<>>, <<>>, EmptyDict) }

AgreeInit ==
    Called([spec : GeneratorDocuments, model_hint : ModelHints,
            credential : Credentials, prompt : BodyPrompts])

\* ConnectorRuntime(ConnectorConfig.from_dict(generated), credential)
\* ._build_body(prompt)
BuildGeneratedBody ==
    /\ Len(rets) = 1
    /\ rets[1].ok
    /\ Returns(2, _build_body(from_dict(Val(rets[1].value)), args.credential, args.prompt))

AgreeNext ==
    \/ GenerateConfig
    \/ BuildGeneratedBody

AgreeSpec == AgreeInit /\ [][AgreeNext]_vars

\* Where the prompt stands in a body or template for the prompt field.
PromptPlace(field) ==
    IF field = S("messages") THEN <<"messages", ".", "0", ".", "content">> ELSE field

\* C29: a config generate returns has request and response, method POST,
\* the inferred prompt field and static_fields with "{prompt}" at it;
\* _build_body on it with prompt P returns a body with P there
\* (messages[0].content for messages) and "{prompt}" nowhere else.
C29_GeneratorAndRuntimeAgree ==
    (Len(rets) >= 1 /\ rets[1].ok) =>
        LET generated == from_dict(Val(rets[1].value))
            request == Val(generated.request)
            field == Val(request.prompt_field)
            operation == Val(args.spec.paths[1][2])[S("post")]
        IN /\ IsSome(generated.request)
           /\ IsSome(generated.response)
           /\ request.method = JStr(S("POST"))
           /\ field = _find_prompt_field(args.spec, _get_request_schema(args.spec, operation))[1]
           /\ _get_nested_value(request.static_fields, PromptPlace(field)) = JStr(S("{prompt}"))
           /\ Len(rets) = 2 =>
                /\ rets[2].ok
                /\ _get_nested_value(rets[2].value, PromptPlace(field)) = JStr(args.prompt)
                /\ DOMAIN Val(rets[2].value) = DOMAIN Val(request.static_fields)
                /\ \A k \in DOMAIN Val(rets[2].value) \ {field} :
                     /\ ~SomeStringHasPlaceholder(Val(rets[2].value)[k])
                     /\ Val(rets[2].value)[k] = Val(request.static_fields)[k]

\* generate with a model hint inferred messages from an array property next
\* to prompt, and the body holds the prompt at messages[0].content.
C29_Witness ==
    /\ Len(rets) = 2
    /\ rets[2].ok
    /\ args.model_hint # JNull
    /\ Val(Val(rets[1].value)[S("request")])[S("prompt_field")] = JStr(S("messages"))
    /\ _get_nested_value(rets[2].value, <<"messages", ".", "0", ".", "content">>) = JStr(args.prompt)
    /\ Val(rets[2].value)[S("model")] = args.model_hint
    /\ S("max_tokens") \in DOMAIN Val(rets[2].value)

(***************************************************************************)
(* get_schema on references, and find_field_mapping on what they yield     *)
(***************************************************************************)
RefSchemas ==
    Dict(<< <<S("ChatRequest"), Properties(<< <<S("message"), StringSchema>> >>)>>,
            <<S("ChatResponse"), Properties(<< <<S("text"), StringSchema>> >>)>> >>)

ComponentNames == {"ChatRequest", "ChatResponse"}

PointerTo(name) == <<"#", "/", "components", "/", "schemas", "/", name>>

\* Pointers into this document that name nothing in it.
MissingPointers ==
    { PointerTo("Missing"),
      <<"#", "/", "components", "/", "models", "/", "ChatRequest">>,
      <<"#", "/", "definitions", "/", "ChatRequest">>,
      <<"#", "/", "info", "/", "title", "/", "ChatRequest">>,
      <<"#", "/", "servers", "/", "0">>,
      <<"#", "/">> }

\* References of another form: another document, a bare name, no "#/".
OtherRefs ==
    { <<"other", ".", "yaml">> \o PointerTo("ChatRequest"),
      <<"other", ".", "yaml">>,
      <<"ChatRequest">>,
      <<"/", "components", "/", "schemas", "/", "ChatRequest">>,
      <<"#", "components", "/", "schemas", "/", "ChatRequest">>,
      <<"#">>,
      <<>> }

Refs == { PointerTo(name) : name \in ComponentNames } \cup MissingPointers \cup OtherRefs

SchemaRef(ref) == JObj(Dict(<< <<S("$ref"), JStr(ref)>> >>))

\* One chat operation whose request and response schemas are references.
RefDocument(request_ref, response_ref) ==
    OneOperation(JObj(Dict(<< <<S("requestBody"), JsonContent(SchemaRef(request_ref))>>,
                              <<S("responses"),
                                JObj(Dict(<< <<Status200, JsonContent(SchemaRef(response_ref))>> >>))>> >>)),
                 <<>>, RefSchemas)

RefInit == Called([request_ref : Refs, response_ref : Refs])

\* parser.get_schema({'$ref': request_ref})
GetSchema ==
    Returns(1, Returned(get_schema(RefDocument(args.request_ref, args.response_ref),
                                   SchemaRef(args.request_ref))))

\* parser.find_field_mapping(parser.find_chat_endpoints()[0])
FindFieldMapping ==
    LET spec == RefDocument(args.request_ref, args.response_ref)
    IN Returns(2, Returned(find_field_mapping(spec, find_chat_endpoints(spec)[1])))

RefNext ==
    \/ GetSchema
    \/ FindFieldMapping

RefSpec == RefInit /\ [][RefNext]_vars

Unresolved(ref) == ~StartsWith(ref, <<"#", "/">>) \/ ref \in MissingPointers

\* C30: get_schema resolves a $ref only when it starts with "#/", to the
\* component it names; a $ref of another form or one naming a missing
\* component yields {}, and find_field_mapping over that {} returns
\* "prompt" with {"prompt": "{prompt}"} and "response".
C30_RefResolution ==
    /\ Len(rets) >= 1 =>
         /\ rets[1].ok
         /\ rets[1].value # JObj(EmptyDict) => StartsWith(args.request_ref, <<"#", "/">>)
         /\ \A name \in ComponentNames :
              args.request_ref = PointerTo(name) => rets[1].value = RefSchemas[S(name)]
         /\ Unresolved(args.request_ref) => rets[1].value = JObj(EmptyDict)
    /\ Len(rets) = 2 =>
         /\ rets[2].ok
         /\ Unresolved(args.request_ref) =>
              /\ rets[2].value.prompt_field = S("prompt")
              /\ rets[2].value.prompt_template = ScalarTemplate(S("prompt"))
         /\ Unresolved(args.response_ref) =>
              rets[2].value.response_field = S("response")

\* The request schema refers to the component of another document and the
\* response schema to a missing component: both fallbacks were returned
\* although this document has a ChatRequest whose field is message.
C30_Witness ==
    /\ Len(rets) = 2
    /\ args.request_ref = <<"other", ".", "yaml">> \o PointerTo("ChatRequest")
    /\ args.response_ref = PointerTo("Missing")
    /\ rets[1].value = JObj(EmptyDict)
    /\ rets[2].value.prompt_field = S("prompt")
    /\ rets[2].value.response_field = S("response")
    /\ find_field_mapping(RefDocument(PointerTo("ChatRequest"), PointerTo("ChatResponse")),
                          find_chat_endpoints(RefDocument(PointerTo("ChatRequest"),
                                                          PointerTo("ChatResponse")))[1]).prompt_field
         = S("message")
====
